---- MODULE Spec2Model ----
(***************************************************************************)
(* mayaFlagFormatter (mayaff): the token-stream scanner that finds the     *)
(* abbreviated keyword arguments of maya command calls, and the rewrite    *)
(* engine that replaces them by their long names.                          *)
(*                                                                         *)
(* Text is a sequence of one-character strings ("\n" included), so that    *)
(* columns, slices and concatenations are those of the Python code.        *)
(***************************************************************************)
EXTENDS Integers, Sequences, FiniteSets, TLC

VARIABLES
    source_code,        \* the text handed to format_string
    config,             \* the config object: [modules, command_data]
    pc,                 \* where format_string is
    found_maya_modules, \* MayaFlagsParser._found_maya_modules
    lexer,              \* MayaFlagsParser._lexer (a Lexer, or None)
    stack,              \* the active _parse_command_flags calls, innermost last
    command_flags,      \* MayaFlagsParser._command_flags
    lines,              \* reformat: the list of lines being rewritten
    pending,            \* reformat: the FlagArg nodes still to apply, in the order of application
    result,             \* what format_string returned (None before it returns)
    probes,             \* history: the _is_maya_module probes made so far
    calls,              \* history: the token indices at which _parse_command_flags was entered
    inputs,             \* the texts the caller hands to format_string after this one
    runs,               \* history: the calls of format_string that have returned
    entered,            \* history: for each active _parse_command_flags, the token of its command name
    attached,           \* history: the records added to a list: [parent, child] tokens, parent 0 for
                        \* the list of the parser
    args,               \* _main: the parsed command line (None when the API is called directly)
    main_pc,            \* _main: where it is
    disk,               \* the files: file name -> text
    file_name,          \* format_file: <<the file being formatted>> (<<>> in format_string)
    futures,            \* format_files: file name -> what its worker returned (<<>> before)
    completed,          \* format_files: the futures the as_completed loop has consumed
    reformatted_files,  \* format_files: the counter of changed files
    failed_files,       \* format_files: the counter of failed files
    status,             \* <<the exit status of _main>> (<<>> before it returns)
    handle              \* parse_file: <<the file object f>>: [pos, closed] (<<>> when no file is open)

\* the state of the command-line run
main_vars == <<args, main_pc, disk, file_name, futures, completed,
               reformatted_files, failed_files, status, handle>>

vars == <<source_code, config, pc, found_maya_modules, lexer, stack,
          command_flags, lines, pending, result, probes, calls, inputs, runs,
          entered, attached, main_vars>>

None == [type |-> "None"]

----------------------------------------------------------------------------
(* Characters and strings *)

Letters == {"a", "b", "c", "d", "e", "f", "g", "h", "i", "j", "k", "l", "m",
            "n", "o", "p", "q", "r", "s", "t", "u", "v", "w", "x", "y", "z", "_",
            "A", "B", "C"}
Digits == {"0", "1", "2", "3", "4", "5", "6", "7", "8", "9"}
Openers == {"(", "[", "{"}
Closers == {")", "]", "}"}
Quote == "'"

\* str.startswith
startswith(s, prefix) ==
    /\ Len(prefix) <= Len(s)
    /\ SubSeq(s, 1, Len(prefix)) = prefix

RECURSIVE join(_, _)
\* sep.join(parts)
join(sep, parts) ==
    IF parts = <<>> THEN <<>>
    ELSE IF Len(parts) = 1 THEN parts[1]
    ELSE parts[1] \o sep \o join(sep, Tail(parts))

RECURSIVE find(_, _, _)
\* the first index >= i at which text holds the character c, or Len(text) + 1
find(text, c, i) ==
    IF i > Len(text) \/ text[i] = c THEN i ELSE find(text, c, i + 1)

\* str.split("\n")
split(text) ==
    LET RECURSIVE from(_)
        from(i) == LET j == find(text, "\n", i)
                   IN  IF j > Len(text) THEN <<SubSeq(text, i, Len(text))>>
                       ELSE <<SubSeq(text, i, j - 1)>> \o from(j + 1)
    IN  from(1)

----------------------------------------------------------------------------
(* tokenize.generate_tokens, on sources without block indentation *)

Token(type, string, line, start, end) ==
    [type |-> type, string |-> string, line |-> line, start |-> start, end |-> end]

RECURSIVE span_end(_, _, _)
\* the first index >= i at which text holds no character of S, or Len(text) + 1
span_end(text, i, S) ==
    IF i > Len(text) \/ text[i] \notin S THEN i ELSE span_end(text, i + 1, S)

RECURSIVE triple_end(_, _)
\* the index after the ''' that closes a string whose body starts at i
triple_end(text, i) ==
    IF i + 2 > Len(text) THEN Len(text) + 1
    ELSE IF SubSeq(text, i, i + 2) = <<Quote, Quote, Quote>> THEN i + 3
    ELSE triple_end(text, i + 1)

\* the index after the string literal that starts at i
string_end(text, i) ==
    IF i + 2 <= Len(text) /\ SubSeq(text, i, i + 2) = <<Quote, Quote, Quote>>
    THEN triple_end(text, i + 3)
    ELSE LET j == find(text, Quote, i + 1) IN IF j > Len(text) THEN j ELSE j + 1

\* the number of line breaks in s, and the length of what follows the last one
newlines(s) == Cardinality({k \in 1..Len(s) : s[k] = "\n"})
last_line_len(s) ==
    LET breaks == {k \in 1..Len(s) : s[k] = "\n"}
    IN  IF breaks = {} THEN Len(s)
        ELSE Len(s) - (CHOOSE k \in breaks : \A m \in breaks : m <= k)

\* the index after the comment that starts at i: a comment runs to the end of its line
comment_end(text, i) == find(text, "\n", i)

RECURSIVE tokens_from(_, _, _, _, _, _)
\* the tokens of text from index i on; (line, col) is the position of text[i],
\* lev the number of open brackets, content whether the logical line holds a token
tokens_from(text, i, line, col, lev, content) ==
    IF i > Len(text)
    THEN IF col > 0
         THEN <<Token(IF content THEN "NEWLINE" ELSE "NL", <<>>, line, col, col + 1),
                Token("ENDMARKER", <<>>, line + 1, 0, 0)>>
         ELSE <<Token("ENDMARKER", <<>>, line, 0, 0)>>
    ELSE LET c == text[i] IN
         CASE c = "\n" ->
                <<Token(IF lev > 0 \/ ~content THEN "NL" ELSE "NEWLINE", <<c>>, line, col, col + 1)>>
                \o tokens_from(text, i + 1, line + 1, 0, lev, lev > 0 /\ content)
           [] c = " " ->
                tokens_from(text, i + 1, line, col + 1, lev, content)
           [] c = "#" ->
                LET j == comment_end(text, i)
                IN  <<Token("COMMENT", SubSeq(text, i, j - 1), line, col, col + (j - i))>>
                    \o tokens_from(text, j, line, col + (j - i), lev, content)
           [] c = Quote ->
                LET j == string_end(text, i)
                    s == SubSeq(text, i, j - 1)
                    endcol == IF newlines(s) = 0 THEN col + Len(s) ELSE last_line_len(s)
                IN  <<Token("STRING", s, line, col, endcol)>>
                    \o tokens_from(text, j, line + newlines(s), endcol, lev, TRUE)
           [] c \in Letters ->
                LET j == span_end(text, i, Letters \cup Digits)
                IN  <<Token("NAME", SubSeq(text, i, j - 1), line, col, col + (j - i))>>
                    \o tokens_from(text, j, line, col + (j - i), lev, TRUE)
           [] c \in Digits ->
                LET j == span_end(text, i, Digits)
                IN  <<Token("NUMBER", SubSeq(text, i, j - 1), line, col, col + (j - i))>>
                    \o tokens_from(text, j, line, col + (j - i), lev, TRUE)
           [] OTHER ->
                <<Token("OP", <<c>>, line, col, col + 1)>>
                \o tokens_from(text, i + 1, line, col + 1,
                               IF c \in Openers THEN lev + 1
                               ELSE IF c \in Closers /\ lev > 0 THEN lev - 1 ELSE lev,
                               TRUE)

\* tokenize.generate_tokens(io.StringIO(text).readline), run to its end
generate_tokens(text) == tokens_from(text, 1, 1, 0, 0, FALSE)

----------------------------------------------------------------------------
(* class Lexer *)

\* a lexer over the text with every "#" read as a blank: the text of a comment
\* comes as the tokens of code, at the same columns
LexerOfCode(text) ==
    [tokens_generator |->
        [tokens |-> generate_tokens([k \in 1..Len(text) |->
                                        IF text[k] = "#" THEN " " ELSE text[k]]),
         next |-> 1],
     tokens_ahead |-> <<>>,
     token |-> None]

\* Lexer.__init__
Lexer(text) ==
    [tokens_generator |-> [tokens |-> generate_tokens(text), next |-> 1],
     tokens_ahead |-> <<>>,
     token |-> None]

\* Lexer._next_token; ok = FALSE stands for StopIteration
next_token(lx) ==
    IF lx.tokens_ahead # <<>>
    THEN [ok |-> TRUE,
          tok |-> lx.tokens_ahead[Len(lx.tokens_ahead)],
          lx |-> [lx EXCEPT !.tokens_ahead = SubSeq(@, 1, Len(@) - 1)]]
    ELSE IF lx.tokens_generator.next > Len(lx.tokens_generator.tokens)
    THEN [ok |-> FALSE, tok |-> None, lx |-> lx]
    ELSE [ok |-> TRUE,
          tok |-> lx.tokens_generator.tokens[lx.tokens_generator.next],
          lx |-> [lx EXCEPT !.tokens_generator.next = @ + 1]]

\* Lexer.advance, given what _next_token returned: self._token = ...
set_token(n) ==
    [ok |-> n.ok, lx |-> IF n.ok THEN [n.lx EXCEPT !.token = n.tok] ELSE n.lx]

\* Lexer.advance
advance(lx) == set_token(next_token(lx))

\* a peek that does not keep the token it took
not_pushed(n) == [ok |-> n.ok, tok |-> n.tok, lx |-> n.lx]

\* Lexer.peek, given what _next_token returned: self._tokens_ahead.append(tok)
push_ahead(n) ==
    [ok |-> n.ok, tok |-> n.tok,
     lx |-> IF n.ok THEN [n.lx EXCEPT !.tokens_ahead = Append(@, n.tok)] ELSE n.lx]

\* Lexer.peek
peek(lx) == push_ahead(next_token(lx))

\* the number of tokens the lexer has made current or holds in its buffer
consumed(lx) == lx.tokens_generator.next - 1 - Len(lx.tokens_ahead)

----------------------------------------------------------------------------
(* class BaseMayaConfig *)

\* BaseMayaConfig.get_flags: the flags dict of a command, {} when it has none
get_flags(cfg, command_name) ==
    IF command_name \in DOMAIN cfg.command_data
    THEN cfg.command_data[command_name] ELSE <<>>

\* dict.get(key), read as a truth value
has_flag(flags, name) == name \in DOMAIN flags /\ flags[name] # <<>>

\* dict.get(key, "")
flag_or_empty(flags, name) == IF name \in DOMAIN flags THEN flags[name] ELSE <<>>

----------------------------------------------------------------------------
(* ast.parse and class MayaImportVisitor *)

RECURSIVE concat_strings(_, _, _)
\* the strings of tokens i..j, concatenated
concat_strings(toks, i, j) ==
    IF i > j THEN <<>> ELSE toks[i].string \o concat_strings(toks, i + 1, j)

S_import == <<"i", "m", "p", "o", "r", "t">>
S_from == <<"f", "r", "o", "m">>
S_as == <<"a", "s">>

\* the first index >= i whose token has the string s or ends the line
RECURSIVE find_token(_, _, _)
find_token(toks, s, i) ==
    IF i > Len(toks) \/ toks[i].string = s \/ toks[i].type \in {"NEWLINE", "ENDMARKER"}
    THEN i ELSE find_token(toks, s, i + 1)

S_in == <<"i", "n">>

\* the keywords the sources use
Keywords == {S_import, S_from, S_as, S_in}

\* ast.parse accepts or rejects the source.  The grammar is that of the statements
\* the sources are made of: imports, assignments to dotted names, and expressions
\* of names, numbers, strings, attribute references, calls, parenthesised groups
\* and `in`; a statement starts in column 0.  An operator below gives the index
\* after the construct that starts at token i, or 0 when there is none.

RECURSIVE significant(_)
\* the tokens the grammar is about: no comments, no line breaks inside a statement
significant(toks) ==
    IF toks = <<>> THEN <<>>
    ELSE (IF toks[1].type \in {"COMMENT", "NL"} THEN <<>> ELSE <<toks[1]>>)
         \o significant(Tail(toks))

is_op(t, i, c) == i <= Len(t) /\ t[i].type = "OP" /\ t[i].string = <<c>>
is_word(t, i, word) == i <= Len(t) /\ t[i].type = "NAME" /\ t[i].string = word
is_name(t, i) == i <= Len(t) /\ t[i].type = "NAME" /\ t[i].string \notin Keywords

\* a string literal that is closed: by three quotes when it opens with three, else
\* by a quote on its line
closed_string(string) ==
    IF startswith(string, <<Quote, Quote, Quote>>)
    THEN Len(string) >= 6 /\ SubSeq(string, Len(string) - 2, Len(string)) = <<Quote, Quote, Quote>>
    ELSE Len(string) >= 2 /\ string[Len(string)] = Quote /\ newlines(string) = 0

RECURSIVE strings_end(_, _), dotted_end(_, _)
\* adjacent string literals
strings_end(t, i) ==
    IF i <= Len(t) /\ t[i].type = "STRING"
    THEN (IF closed_string(t[i].string) THEN strings_end(t, i + 1) ELSE 0)
    ELSE i

\* NAME ("." NAME)*
dotted_end(t, i) ==
    IF ~is_name(t, i) THEN 0
    ELSE IF is_op(t, i + 1, ".") THEN dotted_end(t, i + 2)
    ELSE i + 1

RECURSIVE atom_end(_, _), after_element(_, _), trailers_end(_, _), arguments_end(_, _, _),
          after_argument(_, _, _), comparison_end(_, _), expression_end(_, _)
\* a name, a number, strings, or a parenthesised group
atom_end(t, i) ==
    IF i > Len(t) THEN 0
    ELSE IF is_name(t, i) THEN i + 1
    ELSE IF t[i].type = "NUMBER" THEN (IF is_op(t, i + 1, ".") THEN 0 ELSE i + 1)
    ELSE IF t[i].type = "STRING" THEN strings_end(t, i)
    ELSE IF is_op(t, i, "(")
    THEN (IF is_op(t, i + 1, ")") THEN i + 2 ELSE after_element(t, expression_end(t, i + 1)))
    ELSE 0

\* in a group, after an element that ends before token e
after_element(t, e) ==
    IF e = 0 THEN 0
    ELSE IF is_op(t, e, ")") THEN e + 1
    ELSE IF is_op(t, e, ",")
    THEN (IF is_op(t, e + 1, ")") THEN e + 2 ELSE after_element(t, expression_end(t, e + 1)))
    ELSE 0

\* the attribute references and calls that follow a primary that ends before token e
trailers_end(t, e) ==
    IF e = 0 THEN 0
    ELSE IF is_op(t, e, ".") THEN (IF is_name(t, e + 1) THEN trailers_end(t, e + 2) ELSE 0)
    ELSE IF is_op(t, e, "(") THEN trailers_end(t, arguments_end(t, e + 1, FALSE))
    ELSE e

\* the arguments of a call from token i on: no positional argument after a keyword one
arguments_end(t, i, keyword_seen) ==
    IF is_op(t, i, ")") THEN i + 1
    ELSE IF is_name(t, i) /\ is_op(t, i + 1, "=")
    THEN after_argument(t, expression_end(t, i + 2), TRUE)
    ELSE IF keyword_seen THEN 0
    ELSE after_argument(t, expression_end(t, i), FALSE)

\* in a call, after an argument that ends before token e
after_argument(t, e, keyword_seen) ==
    IF e = 0 THEN 0
    ELSE IF is_op(t, e, ")") THEN e + 1
    ELSE IF is_op(t, e, ",") THEN arguments_end(t, e + 1, keyword_seen)
    ELSE 0

\* ("in" primary)* after a primary that ends before token e
comparison_end(t, e) ==
    IF e = 0 THEN 0
    ELSE IF is_word(t, e, S_in) THEN comparison_end(t, trailers_end(t, atom_end(t, e + 1)))
    ELSE e

expression_end(t, i) == comparison_end(t, trailers_end(t, atom_end(t, i)))

\* ["as" NAME] after token e - 1
alias_end(t, e) ==
    IF e = 0 THEN 0
    ELSE IF is_word(t, e, S_as) THEN (IF is_name(t, e + 1) THEN e + 2 ELSE 0)
    ELSE e

\* "import" dotted ["as" NAME]
import_end(t, i) == alias_end(t, dotted_end(t, i + 1))

\* "import" NAME ["as" NAME] at token m
member_end(t, m) ==
    IF m # 0 /\ is_word(t, m, S_import) /\ is_name(t, m + 1) THEN alias_end(t, m + 2) ELSE 0

\* "from" "."* [dotted] "import" NAME ["as" NAME], d the token after the dots
from_end(t, i, d) ==
    IF is_word(t, d, S_import) THEN (IF d > i + 1 THEN member_end(t, d) ELSE 0)
    ELSE member_end(t, dotted_end(t, d))

RECURSIVE assignment_end(_, _, _)
\* (target "=")* expression, after the expression of tokens i..e-1
assignment_end(t, i, e) ==
    IF e = 0 THEN 0
    ELSE IF is_op(t, e, "=")
    THEN (IF dotted_end(t, i) = e THEN assignment_end(t, e + 1, expression_end(t, e + 1)) ELSE 0)
    ELSE e

\* a statement ends with its line
logical_line_end(t, e) == IF e # 0 /\ e <= Len(t) /\ t[e].type = "NEWLINE" THEN e + 1 ELSE 0

statement_end(t, i) ==
    IF t[i].start # 0 THEN 0
    ELSE IF is_word(t, i, S_import) THEN logical_line_end(t, import_end(t, i))
    ELSE IF is_word(t, i, S_from)
    THEN logical_line_end(t, from_end(t, i, span_end([k \in 1..Len(t) |-> t[k].string], i + 1, {<<".">>})))
    ELSE logical_line_end(t, assignment_end(t, i, expression_end(t, i)))

RECURSIVE statements(_, _)
\* the tokens from i on are statements up to the end marker
statements(t, i) ==
    IF i = 0 \/ i > Len(t) THEN FALSE
    ELSE IF t[i].type = "ENDMARKER" THEN TRUE
    ELSE statements(t, statement_end(t, i))

\* the Import and ImportFrom nodes of the tree ast.parse builds, in source order
\* (one imported name per statement).  An optional name is a tuple: <<>> for
\* None, <<name>> for a name; the asname of an alias is <<>> for None, which
\* `asname or name` does not tell from an empty string
import_nodes(text) ==
    LET toks == generate_tokens(text)
        starts == {i \in 1..Len(toks) :
                      /\ toks[i].type = "NAME"
                      /\ toks[i].string \in {S_import, S_from}
                      /\ (i = 1 \/ toks[i - 1].type \in {"NEWLINE", "NL"})}
        alias(from, to) ==
            LET j == find_token(toks, S_as, from)
            IN  [name |-> concat_strings(toks, from, j - 1),
                 asname |-> IF j < to THEN toks[j + 1].string ELSE <<>>]
        node(i) ==
            IF toks[i].string = S_import
            THEN [kind |-> "Import",
                  module |-> <<>>,
                  level |-> 0,
                  names |-> <<alias(i + 1, find_token(toks, <<"\n">>, i))>>]
            ELSE LET d == span_end([k \in 1..Len(toks) |-> toks[k].string], i + 1, {<<".">>})
                     j == find_token(toks, S_import, d)
                 IN  [kind |-> "ImportFrom",
                      module |-> IF d = j THEN <<>> ELSE <<concat_strings(toks, d, j - 1)>>,
                      level |-> d - (i + 1),
                      names |-> <<alias(j + 1, find_token(toks, <<"\n">>, j))>>]
        RECURSIVE nodes_from(_)
        nodes_from(i) ==
            IF i > Len(toks) THEN <<>>
            ELSE IF i \in starts THEN <<node(i)>> \o nodes_from(i + 1)
            ELSE nodes_from(i + 1)
    IN  nodes_from(1)

\* _import.asname or _import.name
bound_name(imp) == IF imp.asname # <<>> THEN imp.asname ELSE imp.name

RECURSIVE import_matches(_, _)
\* visit_Import, for one alias: an entry of maya_imports for every module of
\* `modules` whose dotted name is the imported name
import_matches(imp, modules) ==
    IF modules = <<>> THEN <<>>
    ELSE (IF imp.name = join(<<".">>, modules[1]) THEN <<bound_name(imp)>> ELSE <<>>)
         \o import_matches(imp, Tail(modules))

\* MayaImportVisitor.visit_Import
visit_Import(node, modules) == import_matches(node.names[1], modules)

RECURSIVE from_matches(_, _, _)
\* visit_ImportFrom, for one alias: an entry of maya_imports for every (module, imp)
\* of `modules` with node.module == module and _import.name == imp
from_matches(node, imp, modules) ==
    IF modules = <<>> THEN <<>>
    ELSE (IF node.module = <<modules[1][1]>> /\ imp.name = modules[1][2]
          THEN <<bound_name(imp)>> ELSE <<>>)
         \o from_matches(node, imp, Tail(modules))

\* MayaImportVisitor.visit_ImportFrom: node.level is not read
visit_ImportFrom(node, modules) == from_matches(node, node.names[1], modules)

RECURSIVE visit(_, _)
\* MayaImportVisitor.visit over the nodes: the value of maya_imports
visit(nodes, modules) ==
    IF nodes = <<>> THEN <<>>
    ELSE (IF nodes[1].kind = "Import" THEN visit_Import(nodes[1], modules)
          ELSE visit_ImportFrom(nodes[1], modules))
         \o visit(Tail(nodes), modules)

\* a parse that rejects no source
ast_parse_any(text) == [exc |-> "", body |-> import_nodes(text)]

\* ast.parse(source_code, file_name): the import nodes of the tree, or a SyntaxError
ast_parse(text) ==
    IF statements(significant(generate_tokens(text)), 1)
    THEN [exc |-> "", body |-> import_nodes(text)]
    ELSE [exc |-> "SyntaxError", body |-> <<>>]

\* `for module, imp in self.modules` of visit_ImportFrom raises a ValueError at an
\* entry that is no pair
visit_raises(nodes, modules) ==
    /\ \E k \in 1..Len(nodes) : nodes[k].kind = "ImportFrom"
    /\ \E j \in 1..Len(modules) : Len(modules[j]) # 2

\* _parse_maya_imports after ast.parse: import_visitor.visit(tree)
imports_visited(tree, modules) ==
    IF tree.exc # "" THEN [exc |-> tree.exc, value |-> <<>>]
    ELSE IF visit_raises(tree.body, modules) THEN [exc |-> "ValueError", value |-> <<>>]
    ELSE [exc |-> "", value |-> visit(tree.body, modules)]

\* MayaFlagsParser._parse_maya_imports: the exception it raises ("" for none) and
\* the new value of _found_maya_modules
parse_maya_imports(text, cfg) == imports_visited(ast_parse(text), cfg.modules)

----------------------------------------------------------------------------
(* flags.py *)

\* a FlagArg that keeps the line number of the token, which counts from 1
create_flag_arg_from_1(token, long_name) ==
    [kind |-> "FlagArg",
     short_name |-> token.string,
     long_name |-> long_name,
     lineno |-> token.line,
     start |-> token.start,
     end |-> token.end]

\* flags.create_flag_arg
create_flag_arg(token, long_name) ==
    [kind |-> "FlagArg",
     short_name |-> token.string,
     long_name |-> long_name,
     lineno |-> token.line - 1,
     start |-> token.start,
     end |-> token.end]

\* flags.FlagKwargs
FlagKwargs(command_name, flag_tokens) ==
    [kind |-> "FlagKwargs", command_name |-> command_name, flag_tokens |-> flag_tokens]

----------------------------------------------------------------------------
(* class MayaFlagsParser: the predicates.  Each returns the lexer it leaves   *)
(* behind and the exception it raised, "" for none.                           *)

\* MayaFlagsParser.toke_equal_to
toke_equal_to(tok, type, text) ==
    IF text # <<>> THEN tok.type = type /\ tok.string = text ELSE TRUE

\* "f{m}." for m in self._found_maya_modules
module_paths(found) == [k \in 1..Len(found) |-> found[k] \o <<".">>]

\* any(m.startswith(string) for m in maya_module_paths)
any_startswith(maya_module_paths, string) ==
    \E k \in 1..Len(maya_module_paths) : startswith(maya_module_paths[k], string)

RECURSIVE module_loop(_, _, _), module_loop_peeked(_, _, _), module_loop_advanced(_, _, _)
\* the loop of _is_maya_module: its result is the lexer it leaves, the string it
\* accumulated and the exception it raised ("" for none)
module_loop(lx, module_string, maya_module_paths) ==
    module_loop_peeked(peek(lx), module_string, maya_module_paths)

\* ... after self._lexer.peek().  The peek sits inside a generator expression:
\* the StopIteration of an exhausted stream leaves it as a RuntimeError
module_loop_peeked(p, module_string, maya_module_paths) ==
    IF ~p.ok
    THEN [exc |-> "RuntimeError", lx |-> p.lx, module_string |-> module_string]
    ELSE IF any_startswith(maya_module_paths, module_string \o p.tok.string)
    THEN module_loop_advanced(advance(p.lx), module_string, maya_module_paths)
    ELSE [exc |-> "", lx |-> p.lx, module_string |-> module_string]

\* ... after self._lexer.advance(): module_string += self._lexer.token().string
module_loop_advanced(a, module_string, maya_module_paths) ==
    module_loop(a.lx, module_string \o a.lx.token.string, maya_module_paths)

\* return module_string in maya_module_paths
module_result(r, maya_module_paths) ==
    [exc |-> r.exc,
     value |-> /\ r.exc = ""
               /\ \E k \in 1..Len(maya_module_paths) : maya_module_paths[k] = r.module_string,
     lx |-> r.lx]

\* MayaFlagsParser._is_maya_module: the value, the lexer left behind, the exception
is_maya_module(lx, found) ==
    IF found = <<>> \/ lx.token.type # "NAME"
    THEN [exc |-> "", value |-> FALSE, lx |-> lx]
    ELSE module_result(module_loop(lx, lx.token.string, module_paths(found)),
                       module_paths(found))

\* a command test that does not look at the token after the command name
command_peeked_any(p) ==
    IF ~p.ok THEN [exc |-> "StopIteration", value |-> FALSE, lx |-> p.lx]
    ELSE [exc |-> "", value |-> TRUE, lx |-> p.lx]

\* _is_maya_command after self._lexer.peek()
command_peeked(p) ==
    IF ~p.ok THEN [exc |-> "StopIteration", value |-> FALSE, lx |-> p.lx]
    ELSE [exc |-> "", value |-> toke_equal_to(p.tok, "OP", <<"(">>), lx |-> p.lx]

\* _is_maya_command after self._lexer.advance(), which consumes the command name
command_advanced(a, cfg) ==
    IF ~a.ok THEN [exc |-> "StopIteration", value |-> FALSE, lx |-> a.lx]
    ELSE IF DOMAIN get_flags(cfg, a.lx.token.string) = {}
    THEN [exc |-> "", value |-> FALSE, lx |-> a.lx]
    ELSE command_peeked(peek(a.lx))

\* _is_maya_command after self._is_maya_module()
command_after_module(m, cfg) ==
    IF m.exc # "" \/ ~m.value THEN [m EXCEPT !.value = FALSE]
    ELSE command_advanced(advance(m.lx), cfg)

\* MayaFlagsParser._is_maya_command
is_maya_command(lx, found, cfg) ==
    IF found = <<>> THEN [exc |-> "", value |-> FALSE, lx |-> lx]
    ELSE command_after_module(is_maya_module(lx, found), cfg)

\* _is_maya_flag after self._lexer.peek()
flag_peeked(p) ==
    IF ~p.ok THEN [exc |-> "StopIteration", value |-> FALSE, lx |-> p.lx]
    ELSE [exc |-> "", value |-> toke_equal_to(p.tok, "OP", <<"=">>), lx |-> p.lx]

\* MayaFlagsParser._is_maya_flag
is_maya_flag(lx, cfg, command_name) ==
    IF lx.token.type # "NAME" \/ ~has_flag(get_flags(cfg, command_name), lx.token.string)
    THEN [exc |-> "", value |-> FALSE, lx |-> lx]
    ELSE flag_peeked(peek(lx))

\* the index, in the token stream, of the current token of lx
current(lx) == consumed(lx)

\* for the history: the probe _is_maya_module makes from the current token of lx
probe_record(lx, m) ==
    [start |-> current(lx), stop |-> current(m.lx), accepted |-> m.value, exc |-> m.exc]

probe_of(lx, found) ==
    IF found = <<>> \/ lx.token.type # "NAME" THEN {}
    ELSE {probe_record(lx, is_maya_module(lx, found))}

----------------------------------------------------------------------------
(* class MayaFlagsParser: parse_string, _parse_stream, _parse_command_flags *)

\* the record of a finished _parse_command_flags, whatever its flag_tokens
returned_unfiltered(frame) == <<FlagKwargs(frame.command_name, frame.flag_tokens)>>

\* filter(None, [record]) for the record a finished _parse_command_flags returns
returned(frame) ==
    IF frame.flag_tokens # <<>>
    THEN <<FlagKwargs(frame.command_name, frame.flag_tokens)>>
    ELSE <<>>

Frame(command_name) == [command_name |-> command_name, flag_tokens |-> <<>>, scope |-> 0]

top == stack[Len(stack)]

\* What one iteration of a loop comes to: the lexer it leaves and
\*   "continue"  the loop goes on            "break"  the loop is left
\*   "scope"     scope += n, and continue    "flag"   flag_tokens.append(node), and continue
\*   "call"      _parse_command_flags(name) is entered
\*   "raise"     an exception no handler of the parser catches
Outcome(kind, lx) == [kind |-> kind, lx |-> lx, n |-> 0, node |-> None, probes |-> {}]

\* the FlagArg of the current token
flag_node(lx, cfg, command_name) ==
    create_flag_arg(lx.token, flag_or_empty(get_flags(cfg, command_name), lx.token.string))

\* _parse_command_flags, lines 231-238: after self._is_maya_flag(command_name)
flags_after_flag(g, frame, cfg) ==
    IF g.exc = "StopIteration" THEN Outcome("break", g.lx)
    ELSE IF g.value
    THEN [Outcome("flag", g.lx) EXCEPT !.node = flag_node(g.lx, cfg, frame.command_name)]
    ELSE Outcome("continue", g.lx)

\* _parse_command_flags, lines 216-229: after self._is_maya_command()
flags_after_command(c, frame, cfg) ==
    IF c.exc = "RuntimeError" THEN Outcome("raise", c.lx)
    ELSE IF c.exc = "StopIteration" THEN Outcome("break", c.lx)
    ELSE IF c.value THEN Outcome("call", c.lx)
    ELSE IF frame.scope > 1 THEN Outcome("continue", c.lx)
    ELSE IF frame.scope = 0 THEN Outcome("break", c.lx)
    ELSE flags_after_flag(is_maya_flag(c.lx, cfg, frame.command_name), frame, cfg)

\* _parse_command_flags, lines 204-214: after self._lexer.advance()
flags_advanced(a, frame, found, cfg) ==
    IF ~a.ok THEN Outcome("break", a.lx)
    ELSE IF a.lx.token.type \notin {"OP", "NAME"} THEN Outcome("continue", a.lx)
    ELSE IF toke_equal_to(a.lx.token, "OP", <<"(">>) THEN [Outcome("scope", a.lx) EXCEPT !.n = 1]
    ELSE IF toke_equal_to(a.lx.token, "OP", <<")">>) THEN [Outcome("scope", a.lx) EXCEPT !.n = -1]
    ELSE [flags_after_command(is_maya_command(a.lx, found, cfg), frame, cfg)
             EXCEPT !.probes = probe_of(a.lx, found)]

\* one iteration of the loop of _parse_command_flags
flags_iteration(lx, frame, found, cfg) == flags_advanced(advance(lx), frame, found, cfg)

\* _parse_stream, lines 183-185: after self._is_maya_command()
stream_after_command(c) ==
    IF c.exc = "RuntimeError" THEN Outcome("raise", c.lx)
    ELSE IF c.exc = "StopIteration" THEN Outcome("break", c.lx)
    ELSE IF c.value THEN Outcome("call", c.lx)
    ELSE Outcome("continue", c.lx)

\* _parse_stream, lines 179-181: after self._lexer.advance()
stream_advanced(a, found, cfg) ==
    IF ~a.ok THEN Outcome("break", a.lx)
    ELSE IF a.lx.token.type # "NAME" THEN Outcome("continue", a.lx)
    ELSE [stream_after_command(is_maya_command(a.lx, found, cfg))
             EXCEPT !.probes = probe_of(a.lx, found)]

\* one iteration of the loop of _parse_stream
stream_iteration(lx, found, cfg) == stream_advanced(advance(lx), found, cfg)

\* the stack and the list of the parser after the innermost _parse_command_flags
\* returned: its record is added to its caller's list
after_return(frames, flags) ==
    IF Len(frames) = 1
    THEN [stack |-> <<>>, command_flags |-> flags \o returned(frames[1])]
    ELSE [stack |-> [SubSeq(frames, 1, Len(frames) - 1)
                        EXCEPT ![Len(frames) - 1].flag_tokens = @ \o returned(frames[Len(frames)])],
          command_flags |-> flags]

\* a scan that puts the node of a flag before the nodes it holds
after_iteration_node_first(frames, o) ==
    CASE o.kind = "scope" -> [frames EXCEPT ![Len(frames)].scope = @ + o.n]
      [] o.kind = "flag" -> [frames EXCEPT ![Len(frames)].flag_tokens = <<o.node>> \o @]
      [] o.kind = "call" -> Append(frames, Frame(o.lx.token.string))
      [] OTHER -> frames

\* the stack after an iteration of the innermost _parse_command_flags
after_iteration(frames, o) ==
    CASE o.kind = "scope" -> [frames EXCEPT ![Len(frames)].scope = @ + o.n]
      [] o.kind = "flag" -> [frames EXCEPT ![Len(frames)].flag_tokens = Append(@, o.node)]
      [] o.kind = "call" -> Append(frames, Frame(o.lx.token.string))
      [] OTHER -> frames

\* parse_string after self._parse_maya_imports(source_code, file_name)
ImportsParsed(imports) ==
    IF imports.exc # ""
    THEN /\ pc' = "raised"
         /\ result' = [type |-> imports.exc]
         /\ UNCHANGED <<found_maya_modules, lexer>>
    ELSE /\ found_maya_modules' = imports.value
         /\ result' = result
         /\ IF imports.value = <<>>
            THEN /\ pc' = "parsed"
                 /\ lexer' = lexer
            ELSE /\ pc' = "stream"
                 /\ lexer' = Lexer(source_code)

\* parse_string up to the creation of the lexer
ParseString ==
    /\ pc = "start"
    /\ ImportsParsed(parse_maya_imports(source_code, config))
    /\ UNCHANGED <<source_code, config, stack, command_flags, lines, pending,
                   probes, calls, inputs, runs, entered, attached, main_vars>>

\* the effect of one iteration of _parse_stream
StreamOutcome(o) ==
    /\ lexer' = o.lx
    /\ probes' = probes \cup o.probes
    /\ pc' = CASE o.kind = "break" -> "parsed" [] o.kind = "raise" -> "raised" [] OTHER -> pc
    /\ result' = IF o.kind = "raise" THEN [type |-> "RuntimeError"] ELSE result
    /\ stack' = after_iteration(stack, o)
    /\ calls' = IF o.kind = "call" THEN calls \cup {current(o.lx)} ELSE calls
    /\ entered' = IF o.kind = "call" THEN <<current(o.lx)>> ELSE entered
    /\ UNCHANGED <<command_flags, attached>>

\* one iteration of the loop of _parse_stream
ParseStreamStep ==
    /\ pc = "stream"
    /\ stack = <<>>
    /\ StreamOutcome(stream_iteration(lexer, found_maya_modules, config))
    /\ UNCHANGED <<source_code, config, found_maya_modules, lines, pending,
                   inputs, runs, main_vars>>

\* the effect of one iteration of the innermost _parse_command_flags
FlagsOutcome(o) ==
    /\ lexer' = o.lx
    /\ probes' = probes \cup o.probes
    /\ pc' = IF o.kind = "raise" THEN "raised" ELSE pc
    /\ result' = IF o.kind = "raise" THEN [type |-> "RuntimeError"] ELSE result
    /\ stack' = IF o.kind = "break" THEN after_return(stack, command_flags).stack
                ELSE after_iteration(stack, o)
    /\ command_flags' = IF o.kind = "break" THEN after_return(stack, command_flags).command_flags
                        ELSE command_flags
    /\ calls' = IF o.kind = "call" THEN calls \cup {current(o.lx)} ELSE calls
    /\ entered' = CASE o.kind = "call" -> Append(entered, current(o.lx))
                     [] o.kind = "break" -> SubSeq(entered, 1, Len(entered) - 1)
                     [] OTHER -> entered
    /\ attached' = IF o.kind = "break" /\ returned(top) # <<>>
                   THEN attached \cup {[parent |-> IF Len(entered) = 1 THEN 0
                                                    ELSE entered[Len(entered) - 1],
                                        child |-> entered[Len(entered)]]}
                   ELSE attached

\* one iteration of the loop of the innermost _parse_command_flags
ParseCommandFlagsStep ==
    /\ pc = "stream"
    /\ stack # <<>>
    /\ FlagsOutcome(flags_iteration(lexer, top, found_maya_modules, config))
    /\ UNCHANGED <<source_code, config, found_maya_modules, lines, pending,
                   inputs, runs, main_vars>>

----------------------------------------------------------------------------
(* reformatter.reformat and mayaff_api.format_string *)

\* a traversal that takes the nodes in the order of the list
in_order(seq) == seq

\* reversed(seq)
reversed(seq) == [k \in 1..Len(seq) |-> seq[Len(seq) + 1 - k]]

RECURSIVE format_nodes(_)
\* the FlagArg nodes under the given nodes, in the order in which
\* `for node in nodes: ...` of _format reaches them
format_nodes(nodes) ==
    IF nodes = <<>> THEN <<>>
    ELSE (IF nodes[1].kind = "FlagKwargs"
          THEN format_nodes(reversed(nodes[1].flag_tokens))
          ELSE <<nodes[1]>>)
         \o format_nodes(Tail(nodes))

\* the FlagArg nodes in the order in which reformat applies them
format_order(flags) == format_nodes(reversed(flags))

\* line[:n] and line[n:]
slice_to(line, n) == SubSeq(line, 1, IF n < Len(line) THEN n ELSE Len(line))
slice_from(line, n) == SubSeq(line, (IF n < Len(line) THEN n ELSE Len(line)) + 1, Len(line))

\* a rewrite that writes the short name of the node
format_line_short(line, node) ==
    slice_to(line, node.start) \o node.short_name \o slice_from(line, node.end)

\* the body of _format for one FlagArg node
format_line(line, node) ==
    slice_to(line, node.start) \o node.long_name \o slice_from(line, node.end)

\* format_string after parse_string returned: reformat starts, or the source is returned
FormatString ==
    /\ pc = "parsed"
    /\ file_name = <<>>
    /\ IF command_flags # <<>>
       THEN /\ pc' = "reformat"
            /\ lines' = split(source_code)
            /\ pending' = format_order(command_flags)
            /\ result' = result
       ELSE /\ pc' = "done"
            /\ result' = source_code
            /\ UNCHANGED <<lines, pending>>
    /\ UNCHANGED <<source_code, config, found_maya_modules, lexer, stack,
                   command_flags, probes, calls, inputs, runs, entered, attached,
                   main_vars>>

\* reformat is entered: lines = source_code.split("\n"), and the nodes are walked
Reformat ==
    /\ pc = "reformat_called"
    /\ pc' = "reformat"
    /\ lines' = split(source_code)
    /\ pending' = format_order(command_flags)
    /\ UNCHANGED <<source_code, config, found_maya_modules, lexer, stack,
                   command_flags, result, probes, calls, inputs, runs, entered,
                   attached, main_vars>>

\* reformat: one FlagArg node is applied
ReformatStep ==
    /\ pc = "reformat"
    /\ pending # <<>>
    /\ lines' = [lines EXCEPT ![pending[1].lineno + 1] = format_line(@, pending[1])]
    /\ pending' = Tail(pending)
    /\ UNCHANGED <<source_code, config, pc, found_maya_modules, lexer, stack,
                   command_flags, result, probes, calls, inputs, runs, entered,
                   attached, main_vars>>

\* reformat returns the joined lines, and format_string returns them
ReformatReturn ==
    /\ pc = "reformat"
    /\ pending = <<>>
    /\ file_name = <<>>
    /\ pc' = "done"
    /\ result' = join(<<"\n">>, lines)
    /\ UNCHANGED <<source_code, config, found_maya_modules, lexer, stack,
                   command_flags, lines, pending, probes, calls, inputs, runs,
                   entered, attached, main_vars>>

\* what the caller hands to format_string next: a text, or what the call before returned
Text(text) == [kind |-> "text", text |-> text]
Output == [kind |-> "output", text |-> <<>>]

\* format_string has returned, and the caller calls it again with the same config:
\* a new MayaFlagsParser is constructed
FormatStringAgain ==
    /\ pc = "done"
    /\ inputs # <<>>
    /\ runs' = Append(runs, [source_code |-> source_code,
                             command_flags |-> command_flags,
                             result |-> result])
    /\ source_code' = IF inputs[1].kind = "output" THEN result ELSE inputs[1].text
    /\ inputs' = Tail(inputs)
    /\ pc' = "start"
    /\ found_maya_modules' = <<>>
    /\ lexer' = None
    /\ stack' = <<>>
    /\ command_flags' = <<>>
    /\ lines' = <<>>
    /\ pending' = <<>>
    /\ result' = None
    /\ probes' = {}
    /\ calls' = {}
    /\ entered' = <<>>
    /\ attached' = {}
    /\ UNCHANGED <<config, main_vars>>

----------------------------------------------------------------------------
(* The inputs *)

S_maya == <<"m", "a", "y", "a">>
S_cmds == <<"c", "m", "d", "s">>
S_delete == <<"d", "e", "l", "e", "t", "e">>
S_trim == <<"t", "r", "i", "m">>
S_n == <<"n">>
S_at == <<"a", "t">>
S_name == <<"n", "a", "m", "e">>
S_node == <<"n", "o", "d", "e">>
S_attribute == <<"a", "t", "t", "r", "i", "b", "u", "t", "e">>

\* a flag table: two commands that share the short flag n
CommandData ==
    (S_delete :> (S_n :> S_name @@ S_at :> S_attribute))
    @@ (S_trim :> (S_n :> S_node))

\* MayaArgsConfig(): the default modules, and the flag table
MayaArgsConfig == [modules |-> <<<<S_maya, S_cmds>>>>, command_data |-> CommandData]

\* the nesting depth of the call expressions of the sources
MaxDepth == 4

T_import == <<"f", "r", "o", "m", " ", "m", "a", "y", "a", " ", "i", "m", "p", "o", "r", "t", " ", "c", "m", "d", "s", "\n">>
T_call_delete == <<"c", "m", "d", "s", ".", "d", "e", "l", "e", "t", "e">>
T_call_trim == <<"c", "m", "d", "s", ".", "t", "r", "i", "m">>
T_call_f == <<"f">>
T_one == <<"1">>
T_kw == <<"n", "=", "1">>
T_comma_kw == <<",", "n", "=", "1">>
T_assign == <<"n", "=", "1", "\n">>

Heads == {T_call_delete, T_call_trim, T_call_f}

RECURSIVE Exprs(_), Args(_)
\* the expressions of nesting depth <= d: a call of a maya command or of another
\* function, or a parenthesised expression
Exprs(d) ==
    IF d = 0 THEN {}
    ELSE {h \o <<"(">> \o a \o <<")">> : h \in Heads, a \in Args(d - 1)}
         \cup {<<"(">> \o e \o <<")">> : e \in Exprs(d - 1)}

\* the argument lists of nesting depth <= d: a literal, a keyword argument, or an
\* expression, followed or not by the keyword argument n=1
Args(d) ==
    {T_one, T_kw} \cup {e \o s : e \in Exprs(d), s \in {<<>>, T_comma_kw}}

\* the sources: the import, one expression statement, and an assignment or not
Sources ==
    {T_import \o e \o <<"\n">> \o t : e \in Exprs(MaxDepth), t \in {<<>>, T_assign}}

\* format_string is called on text with the config cfg; the caller will hand
\* the texts of rest to format_string afterwards
Called(text, cfg, rest) ==
    /\ source_code = text
    /\ config = cfg
    /\ pc = "start"
    /\ found_maya_modules = <<>>
    /\ lexer = None
    /\ stack = <<>>
    /\ command_flags = <<>>
    /\ lines = <<>>
    /\ pending = <<>>
    /\ result = None
    /\ probes = {}
    /\ calls = {}
    /\ inputs = rest
    /\ runs = <<>>
    /\ entered = <<>>
    /\ attached = {}
    /\ args = None
    /\ main_pc = "api"
    /\ disk = <<>>
    /\ file_name = <<>>
    /\ futures = <<>>
    /\ completed = {}
    /\ reformatted_files = 0
    /\ failed_files = 0
    /\ status = <<>>
    /\ handle = <<>>

Init == \E text \in Sources : Called(text, MayaArgsConfig, <<>>)

Next ==
    \/ ParseString
    \/ ParseStreamStep
    \/ ParseCommandFlagsStep
    \/ FormatString
    \/ ReformatStep
    \/ ReformatReturn

Spec == Init /\ [][Next]_vars

----------------------------------------------------------------------------
(* The vocabulary of the properties: tokens, calls, depths and edits *)

\* the token stream the lexer reads (none when parse_string made no lexer)
Tokens == IF lexer = None THEN <<>> ELSE lexer.tokens_generator.tokens

IsOp(t, c) == t \in 1..Len(Tokens) /\ Tokens[t].type = "OP" /\ Tokens[t].string = <<c>>

\* the parenthesis depth at token t relative to the parenthesis at token o: the
\* parentheses opened less those closed in o..t-1
Level(o, t) ==
    Cardinality({u \in o..(t - 1) : IsOp(u, "(")}) - Cardinality({u \in o..(t - 1) : IsOp(u, ")")})

RECURSIVE ClosingFrom(_, _)
\* the first token from u on that closes the open-th parenthesis open before it
ClosingFrom(u, open) ==
    IF u > Len(Tokens) THEN u
    ELSE IF IsOp(u, "(") THEN ClosingFrom(u + 1, open + 1)
    ELSE IF IsOp(u, ")") THEN (IF open = 1 THEN u ELSE ClosingFrom(u + 1, open - 1))
    ELSE ClosingFrom(u + 1, open)

\* the parenthesis that matches the one at token o
Closing(o) == ClosingFrom(o + 1, 1)

\* token t lies between the parenthesis at token o and the one that matches it
Inside(o, t) == o < t /\ t < Closing(o)

\* token t is a keyword argument name that is a short flag of command_name
IsShortFlag(t, command_name) ==
    /\ t \in 1..Len(Tokens)
    /\ Tokens[t].type = "NAME"
    /\ has_flag(get_flags(config, command_name), Tokens[t].string)
    /\ IsOp(t + 1, "=")

\* token t is its call's own keyword argument: at depth 1 of the call whose
\* command name is token c
OwnFlag(c, t) ==
    /\ Inside(c + 1, t)
    /\ Level(c + 1, t) = 1
    /\ IsShortFlag(t, Tokens[c].string)

RECURSIVE EditsOf(_)
\* the FlagArg nodes of a tree, each with the command of the record that holds it
EditsOf(nodes) ==
    IF nodes = <<>> THEN {}
    ELSE (IF nodes[1].kind = "FlagKwargs"
          THEN {[command_name |-> nodes[1].command_name, node |-> nodes[1].flag_tokens[k]] :
                   k \in {k \in 1..Len(nodes[1].flag_tokens) :
                             nodes[1].flag_tokens[k].kind = "FlagArg"}}
               \cup EditsOf(nodes[1].flag_tokens)
          ELSE {})
         \cup EditsOf(Tail(nodes))

\* the edits of the tree parse_string returned
Edits == EditsOf(command_flags)

\* the token a FlagArg node spans
Spans(node, t) ==
    /\ t \in 1..Len(Tokens)
    /\ Tokens[t].line = node.lineno + 1
    /\ Tokens[t].start = node.start
    /\ Tokens[t].end = node.end

\* token t is rewritten / is rewritten to long_name
Rewritten(t) == \E e \in Edits : Spans(e.node, t)
RewrittenTo(t, long_name) == \E e \in Edits : Spans(e.node, t) /\ e.node.long_name = long_name

\* parse_string has returned its tree
Parsed == pc \in {"parsed", "reformat", "done"}

\* the target calls of the text: a bound path, a command of the flag table and "("
TargetCalls ==
    {c \in 1..Len(Tokens) :
        /\ Tokens[c].type = "NAME"
        /\ DOMAIN get_flags(config, Tokens[c].string) # {}
        /\ IsOp(c + 1, "(")
        /\ \E s \in 1..(c - 1) :
              /\ Tokens[s].type = "NAME"
              /\ ~IsOp(s - 1, ".")
              /\ \E k \in 1..Len(found_maya_modules) :
                    concat_strings(Tokens, s, c - 1) = found_maya_modules[k] \o <<".">>}

----------------------------------------------------------------------------
(* C1 - C5: the scan of a call's arguments, and the rewrite *)

\* C1: every FlagArg of the returned tree spans a NAME token that lies inside the
\* parentheses of a recognized target call at depth exactly 1, is a short flag of
\* that call's command and is followed by "="; an identifier outside every target
\* call's argument list is never recorded.
C1_FlagArgsLieInTheirCall ==
    Parsed =>
        \A e \in Edits :
            \E t \in 1..Len(Tokens) :
                /\ Spans(e.node, t)
                /\ \E c \in calls :
                      /\ Tokens[c].string = e.command_name
                      /\ OwnFlag(c, t)

\* C2: the step of _parse_command_flags that reads the closing parenthesis of its
\* own call (scope 1 -> 0) ends that call's scan: the call returns, and no token
\* after the parenthesis has been read.
C2_ScanEndsAtClosingParenthesis ==
    [][(/\ pc = "stream"
        /\ stack # <<>>
        /\ top.scope = 1
        /\ next_token(lexer).ok
        /\ toke_equal_to(next_token(lexer).tok, "OP", <<")">>))
       => (/\ Len(stack') = Len(stack) - 1
           /\ consumed(lexer') = consumed(lexer) + 1)]_vars

\* C3: inside a target call, a short flag of the call's command followed by "=" is
\* not rewritten when it sits at depth 2 or more of the call (in a nested call that
\* is no target call, or in a parenthesised group).
C3_DeeperFlagsAreLeft ==
    Parsed =>
        \A c \in calls : \A t \in 1..Len(Tokens) :
            (/\ Inside(c + 1, t)
             /\ Level(c + 1, t) >= 2
             /\ IsShortFlag(t, Tokens[c].string)
             /\ ~\E d \in TargetCalls : OwnFlag(d, t))
            => ~Rewritten(t)

\* every own keyword argument of the call at token c is rewritten with the
\* mapping of the command of c
OwnFlagsRewritten(c) ==
    \A t \in 1..Len(Tokens) :
        OwnFlag(c, t) =>
            RewrittenTo(t, flag_or_empty(get_flags(config, Tokens[c].string), Tokens[t].string))

\* C4: a target call inside the argument list of another target call, at any depth,
\* is recognized and its own flags are rewritten with its own command's mapping; the
\* enclosing call's own flags, before and after it, are rewritten with the enclosing
\* command's mapping.
C4_NestedCallsAreRewritten ==
    Parsed =>
        \A c \in TargetCalls : \A d \in TargetCalls :
            Inside(c + 1, d) =>
                /\ d \in calls
                /\ OwnFlagsRewritten(d)
                /\ OwnFlagsRewritten(c)

RECURSIVE Replaced(_, _, _, _, _)
\* text from index i on, which is column col of line lineno, with every span of
\* nodes replaced by the long name of its node
Replaced(text, i, lineno, col, nodes) ==
    IF i > Len(text) THEN <<>>
    ELSE IF \E n \in nodes : n.lineno = lineno /\ n.start = col
    THEN LET n == CHOOSE n \in nodes : n.lineno = lineno /\ n.start = col
         IN  n.long_name \o Replaced(text, i + (n.end - n.start), lineno, n.end, nodes)
    ELSE IF text[i] = "\n"
    THEN <<text[i]>> \o Replaced(text, i + 1, lineno + 1, 0, nodes)
    ELSE <<text[i]>> \o Replaced(text, i + 1, lineno, col + 1, nodes)

\* C5: what format_string returns is its input with the span of every FlagArg the
\* scanner found replaced by the long name, the spans taken in the columns of the
\* input; every other character is kept and the number of lines is the same.
C5_OutputIsInputWithSpansReplaced ==
    pc = "done" =>
        /\ result = Replaced(source_code, 1, 0, 0, {e.node : e \in Edits})
        /\ newlines(result) = newlines(source_code)

\* two edits of one line, the left one changing the length of the line, and a
\* line without edit
C5_TwoEditsOnOneLine ==
    /\ pc = "done"
    /\ newlines(source_code) = 3
    /\ \E e1 \in Edits : \E e2 \in Edits :
          /\ e1.node.lineno = 1
          /\ e2.node.lineno = 1
          /\ e1.node.start < e2.node.start
          /\ Len(e1.node.long_name) > e1.node.end - e1.node.start

----------------------------------------------------------------------------
(* C6: format_string on its own output *)

\* a flag table in which a long name of delete is a short flag of delete
ChainData ==
    (S_delete :> (S_n :> S_at @@ S_at :> S_attribute))
    @@ (S_trim :> (S_n :> S_node))

\* a config object that holds it
ChainConfig == [modules |-> <<<<S_maya, S_cmds>>>>, command_data |-> ChainData]

\* the sources of the runs that are repeated: the import, one expression
\* statement, and an assignment or not
SourcesTwice ==
    {T_import \o e \o <<"\n">> \o t : e \in Exprs(MaxDepth - 1), t \in {<<>>, T_assign}}

InitTwice ==
    \E text \in SourcesTwice : \E cfg \in {MayaArgsConfig, ChainConfig} :
        Called(text, cfg, <<Output>>)

NextTwice ==
    \/ ParseString
    \/ ParseStreamStep
    \/ ParseCommandFlagsStep
    \/ FormatString
    \/ ReformatStep
    \/ ReformatReturn
    \/ FormatStringAgain

SpecTwice == InitTwice /\ [][NextTwice]_vars

\* no long name of a command is a short flag of the same command
ChainFree(cfg) ==
    \A command_name \in DOMAIN cfg.command_data :
        \A short \in DOMAIN cfg.command_data[command_name] :
            cfg.command_data[command_name][short] \notin DOMAIN cfg.command_data[command_name]

\* the second run, on the output of the first, finds no edit and returns its input
SecondRunIsIdle ==
    /\ command_flags = <<>>
    /\ pc = "done" => result = runs[1].result

\* C6: for any source and any flag table, format_string on the output of
\* format_string makes no further edit: the second parse returns an empty list and
\* format_string(format_string(s)) = format_string(s).
C6_SecondRunMakesNoEdit ==
    (Len(runs) = 1 /\ Parsed) => SecondRunIsIdle

\* C6, for the flag tables in which no long name of a command is a short flag of
\* the same command: format_string on the output of format_string makes no further
\* edit.
C6_SecondRunMakesNoEditWithoutChains ==
    (Len(runs) = 1 /\ Parsed /\ ChainFree(config)) => SecondRunIsIdle

\* the second run has returned, after a first run that made an edit
C6_SecondRunAfterEdits ==
    /\ Len(runs) = 1
    /\ pc = "done"
    /\ ChainFree(config)
    /\ runs[1].command_flags # <<>>
    /\ runs[1].result # runs[1].source_code

----------------------------------------------------------------------------
(* C7: comments and string literals *)

\* a comment that reads like a target call
T_line_comment ==
    <<"#", " ", "c", "m", "d", "s", ".", "d", "e", "l", "e", "t", "e", "(", "n", "=",
      "1", ")", "\n">>

\* a target call with a comment between its flags
T_comment_in_call ==
    <<"c", "m", "d", "s", ".", "d", "e", "l", "e", "t", "e", "(", "n", "=", "1", ",",
      " ", "#", " ", "c", "m", "d", "s", ".", "t", "r", "i", "m", "(", "n", "=", "1",
      ")", "\n", " ", "a", "t", "=", "1", ")", "\n">>

\* a triple-quoted string over two lines
T_triple_string ==
    <<"'", "'", "'", "c", "m", "d", "s", ".", "d", "e", "l", "e", "t", "e", "(", "n",
      "=", "1", ")", "\n", "n", "=", "1", "'", "'", "'", "\n">>

\* a string that reads like a target call
T_string ==
    <<"x", "=", "'", "c", "m", "d", "s", ".", "t", "r", "i", "m", "(", "n", "=", "1",
      ")", "'", "\n">>

\* a target call followed by a comment
T_comment_after_call ==
    <<"c", "m", "d", "s", ".", "t", "r", "i", "m", "(", "n", "=", "1", ")", " ", "#",
      " ", "n", "=", "1", "\n">>

\* a target call with a string argument
T_string_in_call ==
    <<"c", "m", "d", "s", ".", "d", "e", "l", "e", "t", "e", "(", "'", "n", "=", "1",
      "'", ",", "a", "t", "=", "1", ")", "\n">>

Statements ==
    {T_line_comment, T_comment_in_call, T_triple_string, T_string,
     T_comment_after_call, T_string_in_call}

\* the number of statements of a source after its import
MaxStatements == 2

RECURSIVE Bodies(_)
\* the texts of 1..n statements
Bodies(n) ==
    IF n = 0 THEN {}
    ELSE Statements \cup {b \o t : b \in Bodies(n - 1), t \in Statements}

SourcesComments == {T_import \o b : b \in Bodies(MaxStatements)}

InitComments == \E text \in SourcesComments : Called(text, MayaArgsConfig, <<>>)

SpecComments == InitComments /\ [][Next]_vars

RECURSIVE QuotedInLine(_, _, _)
\* the columns of line, from column col on, that lie in a comment or in a string
\* literal, and what the end of the line lies in; mode says what column col lies in
QuotedInLine(line, col, mode) ==
    IF col >= Len(line)
    THEN [columns |-> {}, mode |-> IF mode = "triple" THEN mode ELSE "code"]
    ELSE LET c == line[col + 1]
             triple == col + 3 <= Len(line)
                       /\ SubSeq(line, col + 1, col + 3) = <<Quote, Quote, Quote>>
             skip == IF triple /\ mode \in {"triple", "code"} THEN 3 ELSE 1
             after == CASE mode = "code" /\ c = "#" -> "comment"
                        [] mode = "code" /\ triple -> "triple"
                        [] mode = "code" /\ c = Quote -> "string"
                        [] mode = "string" /\ c = Quote -> "code"
                        [] mode = "triple" /\ triple -> "code"
                        [] OTHER -> mode
             rest == QuotedInLine(line, col + skip, after)
         IN  [columns |-> (IF mode = "code" /\ after = "code" THEN {}
                           ELSE col..(col + skip - 1)) \cup rest.columns,
              mode |-> rest.mode]

RECURSIVE QuotedFrom(_, _, _)
\* the positions <<lineno, column>> of the lines from lineno on that lie in a
\* comment or in a string literal
QuotedFrom(text_lines, lineno, mode) ==
    IF lineno >= Len(text_lines) THEN {}
    ELSE LET here == QuotedInLine(text_lines[lineno + 1], 0, mode)
         IN  {<<lineno, col>> : col \in here.columns}
             \cup QuotedFrom(text_lines, lineno + 1, here.mode)

\* the positions of the text being formatted that lie in a comment or a string
Quoted == QuotedFrom(split(source_code), 0, "code")

\* the call at token c holds a comment, with own flags before and after it
CommentBetweenFlags(c) ==
    \E t \in 1..Len(Tokens) :
        /\ Inside(c + 1, t)
        /\ Tokens[t].type = "COMMENT"
        /\ \E before \in 1..(t - 1) : OwnFlag(c, before)
        /\ \E after \in (t + 1)..Len(Tokens) : OwnFlag(c, after)

\* C7: text inside a comment or a string literal never produces an edit, even when
\* it reads like a target call; a comment inside a target call does not disturb the
\* rewriting of the flags of that call before and after it.
C7_QuotedTextIsNeverEdited ==
    Parsed =>
        /\ \A e \in Edits : <<e.node.lineno, e.node.start>> \notin Quoted
        /\ \A c \in TargetCalls : CommentBetweenFlags(c) => OwnFlagsRewritten(c)

\* format_string has returned for a source with a triple-quoted string and a call
\* that holds a comment between two rewritten flags
C7_CommentInsideRewrittenCall ==
    /\ pc = "done"
    /\ \E t \in 1..Len(Tokens) : Tokens[t].type = "STRING" /\ newlines(Tokens[t].string) > 0
    /\ \E c \in calls : CommentBetweenFlags(c)
    /\ Cardinality(Edits) = 2

----------------------------------------------------------------------------
(* C8: the same source under the canonical name and under an alias *)

\* from maya import cmds as <alias>
T_from_as ==
    <<"f", "r", "o", "m", " ", "m", "a", "y", "a", " ", "i", "m", "p", "o", "r", "t",
      " ", "c", "m", "d", "s", " ", "a", "s", " ">>

\* import maya.cmds as <alias>
T_import_as ==
    <<"i", "m", "p", "o", "r", "t", " ", "m", "a", "y", "a", ".", "c", "m", "d", "s",
      " ", "a", "s", " ">>

\* a call of delete through the name before it
T_delete_n ==
    <<".", "d", "e", "l", "e", "t", "e", "(", "n", "=", "1", ")", "\n">>

\* a membership test on a call of another object's method
T_in_f_delete ==
    <<"x", " ", "i", "n", " ", "f", ".", "d", "e", "l", "e", "t", "e", "(", "n", "=",
      "1", ")", "\n">>

\* a call of trim through the name before it, up to its first argument
T_trim_open ==
    <<".", "t", "r", "i", "m", "(">>

\* a call of delete as first argument, and the flag n
T_delete_at_n ==
    <<".", "d", "e", "l", "e", "t", "e", "(", "a", "t", "=", "1", ")", ",", "n", "=",
      "1", ")", "\n">>

\* the aliases
S_mc ==
    <<"m", "c">>

S_inf ==
    <<"i", "n", "f">>

S_c ==
    <<"c">>

Aliases == {S_mc, S_inf, S_c}

\* the number of bodies
Bodies8 == 1..4

\* the k-th body, its target calls made through the name a
Body(k, a) ==
    CASE k = 1 -> a \o T_delete_n
      [] k = 2 -> a \o T_delete_n \o T_in_f_delete
      [] k = 3 -> a \o T_trim_open \o a \o T_delete_at_n
      [] k = 4 -> T_in_f_delete \o a \o T_trim_open \o a \o T_delete_at_n \o a \o T_delete_n

\* the source under the canonical name is formatted first, then the same source
\* with the namespace imported under an alias
InitAlias ==
    \E k \in Bodies8 : \E a \in Aliases : \E header \in {T_from_as, T_import_as} :
        Called(T_import \o Body(k, S_cmds), MayaArgsConfig,
               <<Text(header \o a \o <<"\n">> \o Body(k, a))>>)

SpecAlias == InitAlias /\ [][NextTwice]_vars

\* the renames of a tree: which token of which line, of which command, to which name
Renames(toks, nodes) ==
    {[lineno |-> e.node.lineno,
      nth |-> Cardinality({t \in 1..Len(toks) :
                              toks[t].line = e.node.lineno + 1 /\ toks[t].start < e.node.start}),
      command_name |-> e.command_name,
      short_name |-> e.node.short_name,
      long_name |-> e.node.long_name] : e \in EditsOf(nodes)}

\* C8: for any alias, the source that imports the namespace under the alias and
\* calls through it gets the renames of the same source written with the canonical
\* name: the same flags of the same calls, replaced by the same long names.
C8_AliasedSourceGetsTheSameRenames ==
    (Len(runs) = 1 /\ Parsed) =>
        Renames(Tokens, command_flags)
            = Renames(generate_tokens(runs[1].source_code), runs[1].command_flags)

----------------------------------------------------------------------------
(* C9, C10: which names are bound, and which dotted paths are accepted *)

\* the import statements of the sources
H_from ==
    <<"f", "r", "o", "m", " ", "m", "a", "y", "a", " ", "i", "m", "p", "o", "r", "t",
      " ", "c", "m", "d", "s", "\n">>

H_import ==
    <<"i", "m", "p", "o", "r", "t", " ", "m", "a", "y", "a", ".", "c", "m", "d", "s",
      "\n">>

H_import_and_other ==
    <<"i", "m", "p", "o", "r", "t", " ", "m", "a", "y", "a", ".", "c", "m", "d", "s",
      "\n", "f", "r", "o", "m", " ", "a", "b", "c", " ", "i", "m", "p", "o", "r",
      "t", " ", "c", "m", "d", "s", "\n">>

H_other ==
    <<"f", "r", "o", "m", " ", "a", "b", "c", " ", "i", "m", "p", "o", "r", "t", " ",
      "c", "m", "d", "s", "\n">>

H_relative ==
    <<"f", "r", "o", "m", " ", ".", "m", "a", "y", "a", " ", "i", "m", "p", "o", "r",
      "t", " ", "c", "m", "d", "s", "\n">>

H_two_aliases ==
    <<"f", "r", "o", "m", " ", "m", "a", "y", "a", " ", "i", "m", "p", "o", "r", "t",
      " ", "c", "m", "d", "s", " ", "a", "s", " ", "i", "n", "x", "y", "\n", "f",
      "r", "o", "m", " ", "m", "a", "y", "a", " ", "i", "m", "p", "o", "r", "t", " ",
      "c", "m", "d", "s", " ", "a", "s", " ", "x", "\n">>

H_custom ==
    <<"f", "r", "o", "m", " ", "A", "B", "C", ".", "m", "a", "y", "a", "2", " ", "i",
      "m", "p", "o", "r", "t", " ", "a", "b", "c", "\n">>

H_import_as ==
    <<"i", "m", "p", "o", "r", "t", " ", "m", "a", "y", "a", ".", "c", "m", "d", "s",
      " ", "a", "s", " ", "m", "c", "\n">>

\* the statements of the sources
B_cmds ==
    <<"c", "m", "d", "s", ".", "d", "e", "l", "e", "t", "e", "(", "n", "=", "1", ")",
      "\n">>

B_both ==
    <<"m", "a", "y", "a", ".", "c", "m", "d", "s", ".", "d", "e", "l", "e", "t", "e",
      "(", "n", "=", "1", ")", "\n", "c", "m", "d", "s", ".", "d", "e", "l", "e",
      "t", "e", "(", "n", "=", "1", ")", "\n">>

B_backtrack ==
    <<"m", "a", "y", "a", ".", "a", "s", "d", "f", ".", "d", "e", "l", "e", "t", "e",
      "(", "n", "=", "1", ")", "\n", "m", "a", "y", "a", ".", "c", "m", "d", "s",
      ".", "d", "e", "l", "e", "t", "e", "(", "n", "=", "1", ")", "\n">>

B_wrapped ==
    <<"f", "(", "(", "m", "a", "y", "a", ".", "c", "m", "d", "s", ".", "t", "r", "i",
      "m", "(", "1", ")", ")", ")", "\n", "c", "m", "d", "s", ".", "d", "e", "l",
      "e", "t", "e", "(", "n", "=", "1", ")", "\n">>

B_in ==
    <<"a", " ", "i", "n", " ", "x", ".", "d", "e", "l", "e", "t", "e", "(", "n", "=",
      "1", ")", "\n">>

B_custom ==
    <<"a", "b", "c", ".", "d", "e", "l", "e", "t", "e", "(", "n", "=", "1", ")", "\n",
      "m", "c", ".", "t", "r", "i", "m", "(", "n", "=", "1", ")", "\n">>

\* a configured pair of the caller: (ABC.maya2, abc)
S_ABC_maya2 ==
    <<"A", "B", "C", ".", "m", "a", "y", "a", "2">>

S_abc ==
    <<"a", "b", "c">>

\* a config object with the caller's pair in place of (maya, cmds)
CustomConfig == [modules |-> <<<<S_ABC_maya2, S_abc>>>>, command_data |-> CommandData]

Headers ==
    {H_from, H_import, H_import_and_other, H_other, H_relative, H_two_aliases,
     H_custom, H_import_as}

ImportBodies == {B_cmds, B_both, B_backtrack, B_wrapped, B_in, B_custom}

InitImports ==
    \E header \in Headers : \E body \in ImportBodies :
        \E cfg \in {MayaArgsConfig, CustomConfig} :
            Called(header \o body, cfg, <<>>)

SpecImports == InitImports /\ [][Next]_vars

\* the statements `from M import N [as A]` and `import X [as A]` of the text, read
\* from its tokens: M and X as they are written, dots included
ImportStatements ==
    LET toks == generate_tokens(source_code)
        line_end(i) == find_token(toks, <<"\n">>, i)
        word(i, s) == find_token(toks, s, i)
        bound(from, i) ==
            IF word(i, S_as) < line_end(i) THEN toks[word(i, S_as) + 1].string
            ELSE concat_strings(toks, from, line_end(i) - 1)
    IN  {IF toks[i].string = S_from
         THEN [kind |-> "from",
               module |-> concat_strings(toks, i + 1, word(i, S_import) - 1),
               member |-> toks[word(i, S_import) + 1].string,
               binds |-> bound(word(i, S_import) + 1, i)]
         ELSE [kind |-> "import",
               module |-> concat_strings(toks, i + 1, word(i, S_as) - 1),
               member |-> <<>>,
               binds |-> bound(i + 1, i)] :
         i \in {i \in 1..Len(toks) :
                   /\ toks[i].type = "NAME"
                   /\ toks[i].string \in {S_import, S_from}
                   /\ (i = 1 \/ toks[i - 1].type \in {"NEWLINE", "NL"})}}

\* the names the configured pairs bind in the text
BoundNames ==
    {st.binds : st \in {st \in ImportStatements :
        \E k \in 1..Len(config.modules) :
            \/ /\ st.kind = "from"
               /\ st.module = config.modules[k][1]
               /\ st.member = config.modules[k][2]
            \/ /\ st.kind = "import"
               /\ st.module = join(<<".">>, config.modules[k])}}

\* token c is the command name of a call made through the dotted path that starts
\* at token s
CallThrough(s, c) ==
    /\ s < c
    /\ Tokens[s].type = "NAME"
    /\ ~IsOp(s - 1, ".")
    /\ \A u \in s..(c - 1) : Tokens[u].type = "NAME" \/ IsOp(u, ".")
    /\ IsOp(c - 1, ".")
    /\ Tokens[c].type = "NAME"
    /\ DOMAIN get_flags(config, Tokens[c].string) # {}
    /\ IsOp(c + 1, "(")

\* C9: a name is bound by `from M import N [as A]` only when (M, N) is a configured
\* pair; calls through a name that is not bound are not rewritten, calls through a
\* bound path are.
C9_OnlyConfiguredPairsBind ==
    Parsed =>
        /\ {found_maya_modules[k] : k \in 1..Len(found_maya_modules)} = BoundNames
        /\ \A c \in 1..Len(Tokens) : \A s \in 1..(c - 1) :
              CallThrough(s, c) =>
                  IF concat_strings(Tokens, s, c - 2) \in BoundNames
                  THEN OwnFlagsRewritten(c)
                  ELSE \A t \in 1..Len(Tokens) : OwnFlag(c, t) => ~Rewritten(t)

\* the string _is_maya_module has accumulated when its current token is token t
Path(p, t) == concat_strings(Tokens, p.start, t)

IsPrefixOfBoundPath(string) ==
    \E k \in 1..Len(found_maya_modules) : startswith(found_maya_modules[k] \o <<".">>, string)

\* C10: from a NAME token on, _is_maya_module consumes tokens only while the
\* concatenation is a prefix of a bound path followed by ".", does not consume
\* the token that breaks the prefix, and accepts iff the concatenation is a bound
\* path followed by "."; a partial match that fails does not keep any later call
\* through a bound path from being recognized and rewritten.
C10_DottedPathRecognition ==
    Parsed =>
        /\ \A p \in probes :
              p.exc = "" =>
                  /\ \A t \in (p.start + 1)..p.stop : IsPrefixOfBoundPath(Path(p, t))
                  /\ ~IsPrefixOfBoundPath(Path(p, p.stop + 1))
                  /\ p.accepted <=> \E k \in 1..Len(found_maya_modules) :
                                       Path(p, p.stop) = found_maya_modules[k] \o <<".">>
        /\ \A p \in probes : \A c \in TargetCalls :
              (~p.accepted /\ p.start < c) => (c \in calls /\ OwnFlagsRewritten(c))

----------------------------------------------------------------------------
(* C11, C12, C15, C16: which calls are scanned, which names are flags, and   *)
(* where the records go                                                      *)

\* a reference without a call, and a call of a command that has no flags
P_reference ==
    <<"x", "=", "c", "m", "d", "s", ".", "d", "e", "l", "e", "t", "e", "\n", "c", "m",
      "d", "s", ".", "f", "(", "n", "=", "1", ")", "\n">>

\* keyword arguments that are no short flags of trim: a short flag of delete, long names
P_long_forms ==
    <<"c", "m", "d", "s", ".", "t", "r", "i", "m", "(", "n", "a", "m", "e", "=", "1", ",",
      "a", "t", "=", "1", ",", "n", "o", "d", "e", "=", "2", ")", "\n">>

\* a call of delete in parentheses, before a keyword argument of trim
P_wrapped_delete ==
    <<"c", "m", "d", "s", ".", "t", "r", "i", "m", "(", "(", "c", "m", "d", "s", ".", "d",
      "e", "l", "e", "t", "e", "(", "1", ")", ")", ",", "a", "t", "=", "1", ")", "\n">>

\* a call of trim as the value of a flag of delete
P_nested ==
    <<"c", "m", "d", "s", ".", "d", "e", "l", "e", "t", "e", "(", "a", "t", "=", "c", "m",
      "d", "s", ".", "t", "r", "i", "m", "(", "n", "=", "1", ")", ")", "\n">>

\* a call with one flag
P_delete_at ==
    <<"c", "m", "d", "s", ".", "d", "e", "l", "e", "t", "e", "(", "a", "t", "=", "2", ")",
      "\n">>

\* a call without flags
P_no_flags ==
    <<"c", "m", "d", "s", ".", "t", "r", "i", "m", "(", "1", ")", "\n">>

\* a call without flags, in parentheses
P_grouped ==
    <<"(", "c", "m", "d", "s", ".", "t", "r", "i", "m", "(", "1", ")", ")", "\n">>

CallStatements ==
    {P_reference, P_long_forms, P_wrapped_delete, P_nested, P_delete_at, P_no_flags,
     P_grouped, T_assign}

\* the number of statements of a source after its import
MaxCallStatements == 2

RECURSIVE CallBodies(_)
\* the texts of 1..n statements
CallBodies(n) ==
    IF n = 0 THEN {}
    ELSE CallStatements \cup {b \o t : b \in CallBodies(n - 1), t \in CallStatements}

S_f == <<"f">>

\* a config object whose flag table has a command with an empty flags dict
EmptyEntryConfig ==
    [modules |-> <<<<S_maya, S_cmds>>>>, command_data |-> CommandData @@ (S_f :> <<>>)]

\* the sources import the namespace, or a namesake of it from another module
InitCalls ==
    \E header \in {T_import, H_other} : \E body \in CallBodies(MaxCallStatements) :
        \E cfg \in {MayaArgsConfig, EmptyEntryConfig} :
            Called(header \o body, cfg, <<>>)

SpecCalls == InitCalls /\ [][Next]_vars

RECURSIVE RecordsOf(_)
\* the FlagKwargs records of a tree
RecordsOf(nodes) ==
    IF nodes = <<>> THEN {}
    ELSE (IF nodes[1].kind = "FlagKwargs"
          THEN {nodes[1]} \cup RecordsOf(nodes[1].flag_tokens)
          ELSE {})
         \cup RecordsOf(Tail(nodes))

\* token c comes directly after a namespace prefix that _is_maya_module accepted
AfterPrefix(c) == \E p \in probes : p.accepted /\ p.stop + 1 = c

\* token c is a key of the flag table with flags, and the token after it is "("
IsCommandCall(c) ==
    /\ c \in 1..Len(Tokens)
    /\ DOMAIN get_flags(config, Tokens[c].string) # {}
    /\ IsOp(c + 1, "(")

\* C11: an argument scan is opened only at a token that comes directly after an
\* accepted namespace prefix, is a key of the flag table with a non-empty flags
\* dict and is followed by "("; a reference without a call, or a command that is
\* not in the table, opens no scan and gives no record.
C11_ScansOpenAtCommandCalls ==
    /\ \A c \in calls : AfterPrefix(c) /\ IsCommandCall(c)
    /\ \A r \in RecordsOf(command_flags) :
          \E c \in calls : IsCommandCall(c) /\ Tokens[c].string = r.command_name

\* format_string has returned for a source with a reference that is no call, a
\* call of a command that has an empty flags dict, and a call that was rewritten
C11_ReferenceAndCall ==
    /\ pc = "done"
    /\ \E p \in probes :
          /\ p.accepted
          /\ DOMAIN get_flags(config, Tokens[p.stop + 1].string) # {}
          /\ ~IsOp(p.stop + 2, "(")
          /\ p.stop + 1 \notin calls
    /\ \E p \in probes :
          /\ p.accepted
          /\ Tokens[p.stop + 1].string \in DOMAIN config.command_data
          /\ DOMAIN get_flags(config, Tokens[p.stop + 1].string) = {}
          /\ IsOp(p.stop + 2, "(")
          /\ p.stop + 1 \notin calls
    /\ \E c \in calls : \E t \in 1..Len(Tokens) : OwnFlag(c, t) /\ Rewritten(t)

\* token t is a keyword argument name at depth 1 of the call whose command name is
\* token c, and no short flag of that command
OtherKeyword(c, t) ==
    /\ Inside(c + 1, t)
    /\ Level(c + 1, t) = 1
    /\ Tokens[t].type = "NAME"
    /\ IsOp(t + 1, "=")
    /\ ~has_flag(get_flags(config, Tokens[c].string), Tokens[t].string)

RECURSIVE TextAt(_, _, _, _)
\* the n characters of text at column col of line lineno (lines from 0)
TextAt(text, lineno, col, n) ==
    IF lineno = 0 THEN SubSeq(text, col + 1, col + n)
    ELSE TextAt(SubSeq(text, find(text, "\n", 1) + 1, Len(text)), lineno - 1, col, n)

RECURSIVE Shift(_, _)
\* by how many columns the edits of nodes move token t on its line
Shift(nodes, t) ==
    IF nodes = <<>> THEN 0
    ELSE (IF nodes[1].lineno = Tokens[t].line - 1 /\ nodes[1].start < Tokens[t].start
          THEN Len(nodes[1].long_name) - (nodes[1].end - nodes[1].start)
          ELSE 0)
         + Shift(Tail(nodes), t)

\* C12: a keyword argument of a target call whose name is no short flag of that
\* call's command (a short flag of another command, a long name) gives no edit and
\* stands unchanged in the output.
C12_OtherKeywordsAreLeft ==
    Parsed =>
        \A c \in TargetCalls : \A t \in 1..Len(Tokens) :
            OtherKeyword(c, t) =>
                /\ ~Rewritten(t)
                /\ pc = "done" =>
                      TextAt(result, Tokens[t].line - 1,
                             Tokens[t].start + Shift(format_order(command_flags), t),
                             Len(Tokens[t].string)) = Tokens[t].string

----------------------------------------------------------------------------
(* C13: reformatter.reformat, called with a tree of the caller *)

\* the text that is reformatted
T_two_calls ==
    <<"c", "m", "d", "s", ".", "d", "e", "l", "e", "t", "e", "(", "n", "=", "1", ",",
      "a", "t", "=", "2", ")", "\n", "c", "m", "d", "s", ".", "t", "r", "i", "m", "(",
      "n", "=", "1", ")", "\n">>

\* for the k-th token of T_two_calls as a flag of command_name: no node, the node
\* with the long name of the flag table, or the node with the empty long name
\* that `.get(name, "")` gives for a name the table does not hold
FlagArgs(k, command_name) ==
    {<<>>}
    \cup {<<create_flag_arg(generate_tokens(T_two_calls)[k], long_name)>> :
            long_name \in {<<>>, flag_or_empty(get_flags(MayaArgsConfig, command_name),
                                              generate_tokens(T_two_calls)[k].string)}}

\* filter(None, [FlagKwargs(...) if flag_tokens else None])
Record(command_name, flag_tokens) ==
    IF flag_tokens = <<>> THEN <<>> ELSE <<FlagKwargs(command_name, flag_tokens)>>

\* the trees: the flags n and at of delete, the flag n of trim, the record of trim
\* after the one of delete or inside it
Trees ==
    UNION {{Record(S_delete, a \o b) \o Record(S_trim, c),
            Record(S_delete, a \o Record(S_trim, c) \o b)} :
           a \in FlagArgs(5, S_delete), b \in FlagArgs(9, S_delete), c \in FlagArgs(17, S_trim)}

\* reformat(text, flags) is called
ReformatCalled(text, flags) ==
    /\ source_code = text
    /\ config = MayaArgsConfig
    /\ pc = "reformat_called"
    /\ found_maya_modules = <<>>
    /\ lexer = None
    /\ stack = <<>>
    /\ command_flags = flags
    /\ lines = <<>>
    /\ pending = <<>>
    /\ result = None
    /\ probes = {}
    /\ calls = {}
    /\ inputs = <<>>
    /\ runs = <<>>
    /\ entered = <<>>
    /\ attached = {}
    /\ args = None
    /\ main_pc = "api"
    /\ disk = <<>>
    /\ file_name = <<>>
    /\ futures = <<>>
    /\ completed = {}
    /\ reformatted_files = 0
    /\ failed_files = 0
    /\ status = <<>>
    /\ handle = <<>>

InitReformat == \E flags \in Trees : ReformatCalled(T_two_calls, flags)

NextReformat ==
    \/ Reformat
    \/ ReformatStep
    \/ ReformatReturn

SpecReformat == InitReformat /\ [][NextReformat]_vars

\* C13: reformat treats a FlagArg whose long_name is the empty string as a no-op:
\* what it returns is the text with the spans of the other nodes replaced, and
\* the identifier of a node with an empty long_name is kept.
C13_EmptyLongNameIsSkipped ==
    pc = "done" =>
        result = Replaced(source_code, 1, 0, 0,
                          {e.node : e \in {e \in Edits : e.node.long_name # <<>>}})

----------------------------------------------------------------------------
(* C14: sources that ast.parse rejects *)

\* a Python 2 print statement
Y_print ==
    <<"p", "r", "i", "n", "t", " ", "'", "h", "e", "l", "l", "o", "'", "\n">>

\* a call whose parenthesis is never closed
Y_unclosed ==
    <<"c", "m", "d", "s", ".", "d", "e", "l", "e", "t", "e", "(", "n", "=",
      "1", "\n">>

SyntaxStatements == {Y_print, Y_unclosed, B_cmds, T_assign}

\* the number of statements of a source after its header
MaxSyntaxStatements == 2

RECURSIVE SyntaxBodies(_)
\* the texts of 1..n statements
SyntaxBodies(n) ==
    IF n = 0 THEN {}
    ELSE SyntaxStatements
         \cup {b \o t : b \in SyntaxBodies(n - 1), t \in SyntaxStatements}

\* the sources import the namespace, import a namesake of it, or import nothing
InitSyntax ==
    \E header \in {<<>>, T_import, H_other} :
        \E body \in SyntaxBodies(MaxSyntaxStatements) :
            Called(header \o body, MayaArgsConfig, <<>>)

SpecSyntax == InitSyntax /\ [][Next]_vars

S_print == <<"p", "r", "i", "n", "t">>

\* the name print directly followed by a string literal: a Python 2 print statement
HasPrintStatement(toks) ==
    \E i \in 1..(Len(toks) - 1) :
        /\ toks[i].type = "NAME"
        /\ toks[i].string = S_print
        /\ toks[i + 1].type = "STRING"

\* the number of OP tokens with the given string
Count(toks, string) ==
    Cardinality({i \in 1..Len(toks) : toks[i].type = "OP" /\ toks[i].string = string})

\* the source has a print statement or a parenthesis without its partner
NotValidSyntax(toks) ==
    HasPrintStatement(toks) \/ Count(toks, <<"(">>) # Count(toks, <<")">>)

\* the text has a call of delete with the flag n
HasTargetCall(toks) ==
    \E i \in 1..(Len(toks) - 3) :
        /\ toks[i].string = S_delete
        /\ toks[i + 1].string = <<"(">>
        /\ toks[i + 2].string = S_n
        /\ toks[i + 3].string = <<"=">>

\* C14: once parse_string has acted on a source that is not valid syntax, the call
\* has raised SyntaxError, no lexer was made, no token was scanned, no record and
\* no edit was collected and no text was returned, with or without imports and calls
C14_SyntaxErrorBeforeScanning ==
    (pc # "start" /\ NotValidSyntax(generate_tokens(source_code))) =>
        /\ pc = "raised"
        /\ result = [type |-> "SyntaxError"]
        /\ lexer = None
        /\ found_maya_modules = <<>>
        /\ stack = <<>>
        /\ command_flags = <<>>
        /\ pending = <<>>
        /\ lines = <<>>
        /\ probes = {}
        /\ calls = {}

\* format_string has raised on a print statement in a source that imports the
\* namespace and calls a command with a short flag
C14_PrintWithImportAndCall ==
    /\ pc = "raised"
    /\ HasPrintStatement(generate_tokens(source_code))
    /\ HasTargetCall(generate_tokens(source_code))
    /\ BoundNames # {}

----------------------------------------------------------------------------
(* C15: sources without a matching import, and calls without short flags *)

\* no recognized call of the text has an own short flag
NoShortFlags == \A c \in TargetCalls : \A t \in 1..Len(Tokens) : ~OwnFlag(c, t)

\* the text has no import of a configured pair: no alias, no lexer, no scan, no record
NoImportNoScan ==
    (pc # "start" /\ BoundNames = {}) =>
        /\ pc \in {"parsed", "done"}
        /\ found_maya_modules = <<>>
        /\ lexer = None
        /\ probes = {}
        /\ calls = {}
        /\ command_flags = <<>>
        /\ (pc = "done" => result = source_code)

\* C15: without an import of a configured pair the alias list is empty, no scan is
\* started, parse_string returns an empty list and format_string returns its input,
\* whatever the source calls; and when no recognized call has a short flag,
\* format_string returns its input with no edit
C15_NoImportOrNoFlagsIsNoOp ==
    /\ NoImportNoScan
    /\ (pc = "done" /\ NoShortFlags) => (Edits = {} /\ result = source_code)

----------------------------------------------------------------------------
(* C16: the nesting of the records *)

\* C16: a record is put into the flag_tokens of another record only if its call
\* lies inside the parentheses of that record's call; the records of calls in
\* separate statements are never parent and child
C16_ChildrenLieInsideTheirParent ==
    \A a \in attached : a.parent # 0 => Inside(a.parent + 1, a.child)

----------------------------------------------------------------------------
(* The command-line run: _main, format_files, _format_file and format_file *)

RECURSIVE split_at(_, _, _)
\* text[i..].split(sep) for a separator of one character
split_at(text, sep, i) ==
    IF find(text, sep, i) > Len(text) THEN <<SubSeq(text, i, Len(text))>>
    ELSE <<SubSeq(text, i, find(text, sep, i) - 1)>>
         \o split_at(text, sep, find(text, sep, i) + 1)

\* the pairs of one --modules entry list
tuples(entries) == [k \in 1..Len(entries) |-> split_at(entries[k], ":", 1)]

\* _main: modules = [tuple(m.split(":")) for m in args.modules.split(",")]
modules_of(string) == tuples(split_at(string, ",", 1))

\* the text from index i on with the line end at index j, a "\r" or a "\r\n", read
\* as "\n" (j > Len(data): no line end is left)
RECURSIVE universal_newlines(_, _), newline_at(_, _, _)
newline_at(data, i, j) ==
    IF j > Len(data) THEN SubSeq(data, i, Len(data))
    ELSE SubSeq(data, i, j - 1) \o <<"\n">>
         \o universal_newlines(data, IF j < Len(data) /\ data[j + 1] = "\n"
                                     THEN j + 2 ELSE j + 1)

\* what a text-mode read makes of the file's characters from index i on: each
\* "\r\n" and each "\r" is read as "\n"
universal_newlines(data, i) == newline_at(data, i, find(data, "\r", i))

\* file_resources.read_file: open(file_name) is a text-mode open with the default
\* newline handling; the text it returns
read_file(data) == universal_newlines(data, 1)

\* a worker that counts a raising file as changed too
format_file_counted_twice(raised, changed) ==
    [changed |-> IF raised \/ changed THEN 1 ELSE 0, failed |-> IF raised THEN 1 ELSE 0]

\* _format_file: (int(result), 0), or (0, 1) when format_file raised
format_file_result(raised, changed) ==
    IF raised THEN [changed |-> 0, failed |-> 1]
    ELSE [changed |-> IF changed THEN 1 ELSE 0, failed |-> 0]

\* _main after format_files: the value it returns
exit_status(a, files_changed, failed) ==
    IF ~a.quiet /\ failed # 0 THEN 1
    ELSE IF files_changed # 0 /\ (a.diff \/ a.check) THEN 1
    ELSE 0

\* _main up to the submission of the workers: the config is made from args.modules
\* as it is, and format_files submits one future per file
Main ==
    /\ main_pc = "main"
    /\ main_pc' = "format_files"
    /\ config' = [modules |-> modules_of(args.modules), command_data |-> CommandData]
    /\ UNCHANGED <<source_code, pc, found_maya_modules, lexer, stack, command_flags,
                   lines, pending, result, probes, calls, inputs, runs, entered,
                   attached, args, disk, file_name, futures, completed,
                   reformatted_files, failed_files, status, handle>>

\* a worker takes file f: format_file reads it and makes a new parser. The workers
\* are processes that share no state but the files, so their steps are taken one
\* file at a time, in any order
FormatFile(f) ==
    /\ main_pc = "format_files"
    /\ file_name = <<>>
    /\ futures[f] = <<>>
    /\ file_name' = <<f>>
    /\ source_code' = read_file(disk[f])
    /\ pc' = "start"
    /\ found_maya_modules' = <<>>
    /\ lexer' = None
    /\ stack' = <<>>
    /\ command_flags' = <<>>
    /\ lines' = <<>>
    /\ pending' = <<>>
    /\ result' = None
    /\ probes' = {}
    /\ calls' = {}
    /\ entered' = <<>>
    /\ attached' = {}
    /\ UNCHANGED <<config, inputs, runs, args, main_pc, disk, futures, completed,
                   reformatted_files, failed_files, status, handle>>

\* the call of format_file that a worker ends: what it read, and how it ended
Run(raised, value) ==
    [file_name |-> file_name[1], source_code |-> source_code,
     raised |-> raised, returned |-> value]

\* the worker returns: its future is done
WorkerReturns(raised, value) ==
    /\ futures' = [futures EXCEPT ![file_name[1]] =
                      <<format_file_result(raised, value)>>]
    /\ runs' = Append(runs, Run(raised, value))
    /\ file_name' = <<>>
    /\ pc' = "idle"

\* a format_file that does not look at check_only
not_flags(flags, check_only) == flags = <<>>

\* format_file: `not flags or check_only`
not_flags_or_check_only(flags, check_only) == flags = <<>> \/ check_only

\* format_file after parse_string: `if not flags or check_only: return bool(flags)`,
\* else reformat is called
FlagsParsed ==
    /\ pc = "parsed"
    /\ file_name # <<>>
    /\ IF not_flags_or_check_only(command_flags, args.check)
       THEN /\ WorkerReturns(FALSE, command_flags # <<>>)
            /\ UNCHANGED <<lines, pending>>
       ELSE /\ pc' = "reformat"
            /\ lines' = split(source_code)
            /\ pending' = format_order(command_flags)
            /\ UNCHANGED <<futures, runs, file_name>>
    /\ UNCHANGED <<source_code, config, found_maya_modules, lexer, stack,
                   command_flags, result, probes, calls, inputs, entered, attached,
                   args, main_pc, disk, completed, reformatted_files, failed_files,
                   status, handle>>

\* format_file after reformat: the diff is printed, or the text is written to the
\* file as it is (newline=""), and True is returned
WriteFile ==
    /\ pc = "reformat"
    /\ pending = <<>>
    /\ file_name # <<>>
    /\ disk' = IF args.diff THEN disk
               ELSE [disk EXCEPT ![file_name[1]] = join(<<"\n">>, lines)]
    /\ WorkerReturns(FALSE, TRUE)
    /\ UNCHANGED <<source_code, config, found_maya_modules, lexer, stack,
                   command_flags, lines, pending, result, probes, calls, inputs,
                   entered, attached, args, main_pc, completed, reformatted_files,
                   failed_files, status, handle>>

\* format_file raised: `except Exception` of _format_file
FormatFileRaised ==
    /\ pc = "raised"
    /\ file_name # <<>>
    /\ WorkerReturns(TRUE, FALSE)
    /\ UNCHANGED <<source_code, config, found_maya_modules, lexer, stack,
                   command_flags, lines, pending, result, probes, calls, inputs,
                   entered, attached, args, main_pc, disk, completed,
                   reformatted_files, failed_files, status, handle>>

\* format_files: as_completed yields the done future of file f, and its result is
\* added to the counters
AsCompleted(f) ==
    /\ main_pc = "format_files"
    /\ f \notin completed
    /\ futures[f] # <<>>
    /\ completed' = completed \cup {f}
    /\ reformatted_files' = reformatted_files + futures[f][1].changed
    /\ failed_files' = failed_files + futures[f][1].failed
    /\ UNCHANGED <<source_code, config, pc, found_maya_modules, lexer, stack,
                   command_flags, lines, pending, result, probes, calls, inputs, runs,
                   entered, attached, args, main_pc, disk, file_name, futures, status, handle>>

\* format_files returns its counters, and _main returns the exit status
MainReturn ==
    /\ main_pc = "format_files"
    /\ completed = DOMAIN futures
    /\ main_pc' = "returned"
    /\ status' = <<exit_status(args, reformatted_files, failed_files)>>
    /\ UNCHANGED <<source_code, config, pc, found_maya_modules, lexer, stack,
                   command_flags, lines, pending, result, probes, calls, inputs, runs,
                   entered, attached, args, disk, file_name, futures, completed,
                   reformatted_files, failed_files, handle>>

\* a file with a short flag, its lines ending in LF
F_lf ==
    <<"f", "r", "o", "m", " ", "m", "a", "y", "a", " ", "i", "m", "p", "o",
      "r", "t", " ", "c", "m", "d", "s", "\n", "c", "m", "d", "s", ".", "d",
      "e", "l", "e", "t", "e", "(", "n", "=", "1", ")", "\n">>

\* the same file with lines ending in CRLF
F_crlf ==
    <<"f", "r", "o", "m", " ", "m", "a", "y", "a", " ", "i", "m", "p", "o",
      "r", "t", " ", "c", "m", "d", "s", "\r", "\n", "c", "m", "d", "s", ".",
      "d", "e", "l", "e", "t", "e", "(", "n", "=", "1", ")", "\r", "\n">>

\* the same file with lines ending in CR
F_cr ==
    <<"f", "r", "o", "m", " ", "m", "a", "y", "a", " ", "i", "m", "p", "o",
      "r", "t", " ", "c", "m", "d", "s", "\r", "c", "m", "d", "s", ".", "d",
      "e", "l", "e", "t", "e", "(", "n", "=", "1", ")", "\r">>

\* a file that is not valid syntax
F_print ==
    <<"f", "r", "o", "m", " ", "m", "a", "y", "a", " ", "i", "m", "p", "o",
      "r", "t", " ", "c", "m", "d", "s", "\n", "p", "r", "i", "n", "t", " ",
      "'", "h", "e", "l", "l", "o", "'", "\n">>

\* a file without imports
F_plain ==
    <<"n", "=", "1", "\n">>

\* --modules: one pair
M_pair ==
    <<"m", "a", "y", "a", ":", "c", "m", "d", "s">>

\* --modules: an entry without the separator
M_no_separator ==
    <<"m", "a", "y", "a">>

\* --modules: a pair, and an entry with two separators
M_extra_separator ==
    <<"m", "a", "y", "a", ":", "c", "m", "d", "s", ",", "m", "a", "y", "a",
      ":", "c", "m", "d", "s", ":", "d", "e", "l", "e", "t", "e">>

FileTexts == {F_lf, F_crlf, F_cr, F_print, F_plain}

ModulesOptions == {M_pair, M_no_separator, M_extra_separator}

\* the number of files of a run
MaxFiles == 2

\* the files of a run, by name 1..n
Disks == UNION {[1..n -> FileTexts] : n \in 1..MaxFiles}

\* the command line is parsed: _main starts with the options args on the files d
MainCalled(a, d) ==
    /\ args = a
    /\ disk = d
    /\ main_pc = "main"
    /\ config = None
    /\ source_code = <<>>
    /\ pc = "idle"
    /\ found_maya_modules = <<>>
    /\ lexer = None
    /\ stack = <<>>
    /\ command_flags = <<>>
    /\ lines = <<>>
    /\ pending = <<>>
    /\ result = None
    /\ probes = {}
    /\ calls = {}
    /\ inputs = <<>>
    /\ runs = <<>>
    /\ entered = <<>>
    /\ attached = {}
    /\ file_name = <<>>
    /\ futures = [f \in DOMAIN d |-> <<>>]
    /\ completed = {}
    /\ reformatted_files = 0
    /\ failed_files = 0
    /\ status = <<>>
    /\ handle = <<>>

InitMain ==
    \E d \in Disks : \E m \in ModulesOptions : \E q \in BOOLEAN :
        \E c \in BOOLEAN : \E p \in BOOLEAN :
            MainCalled([modules |-> m, quiet |-> q, check |-> c, diff |-> p], d)

NextMain ==
    \/ Main
    \/ \E f \in DOMAIN futures : FormatFile(f)
    \/ ParseString
    \/ ParseStreamStep
    \/ ParseCommandFlagsStep
    \/ FlagsParsed
    \/ ReformatStep
    \/ WriteFile
    \/ FormatFileRaised
    \/ \E f \in DOMAIN futures : AsCompleted(f)
    \/ MainReturn

SpecMain == InitMain /\ [][NextMain]_vars

----------------------------------------------------------------------------
(* C17: the counters of format_files *)

\* the text has a from-import
HasFromImport(toks) ==
    \E i \in 1..Len(toks) : toks[i].type = "NAME" /\ toks[i].string = S_from

\* the text has the statement `from maya import cmds`
ImportsNamespace(toks) ==
    \E i \in 1..(Len(toks) - 3) :
        /\ toks[i].string = S_from
        /\ toks[i + 1].string = S_maya
        /\ toks[i + 2].string = S_import
        /\ toks[i + 3].string = S_cmds

\* some entry of modules is no pair
Malformed(modules) == \E j \in 1..Len(modules) : Len(modules[j]) # 2

\* what a file with these tokens must make of format_file under modules, by the
\* file alone: it raises when the text is no valid syntax, or has a from-import
\* while an entry of modules is no pair
MustRaise(toks, modules) ==
    NotValidSyntax(toks) \/ (HasFromImport(toks) /\ Malformed(modules))

\* format_file must return True: the text imports the namespace and calls a
\* command with a short flag
MustReturnTrue(toks, modules) ==
    /\ ~MustRaise(toks, modules)
    /\ ImportsNamespace(toks)
    /\ HasTargetCall(toks)

\* the ended calls of format_file that raised / that returned True
RaisedRuns == {k \in 1..Len(runs) : runs[k].raised}
TrueRuns == {k \in 1..Len(runs) : runs[k].returned}

----------------------------------------------------------------------------
(* C18: the exit status of a run with failed files *)

\* C18: when _main has returned and a file has failed, the exit status is not 0,
\* whatever the options; and every file whose call returned True in a run without
\* --check and --diff has been written with a text other than the one read
C18_FailureGivesFailureStatus ==
    main_pc = "returned" =>
        /\ failed_files # 0 => status[1] # 0
        /\ (~args.check /\ ~args.diff) =>
              \A k \in TrueRuns : disk[runs[k].file_name] # runs[k].source_code

----------------------------------------------------------------------------
(* C19: --modules entries that are no pair *)

\* C19: in a run whose --modules value has an entry that is no pair, no file is
\* ever read or processed, and no file fails
C19_MalformedPairIsRejectedAtSetup ==
    Malformed(modules_of(args.modules)) =>
        /\ file_name = <<>>
        /\ runs = <<>>
        /\ \A f \in DOMAIN futures : futures[f] = <<>>
        /\ failed_files = 0

----------------------------------------------------------------------------
(* C20: the line endings of a written file *)

RECURSIVE LineEndings(_, _)
\* the line terminators of the text from index i on, in order
LineEndings(text, i) ==
    IF i > Len(text) THEN <<>>
    ELSE IF text[i] = "\r" /\ i < Len(text) /\ text[i + 1] = "\n"
    THEN <<"CRLF">> \o LineEndings(text, i + 2)
    ELSE IF text[i] = "\r" THEN <<"CR">> \o LineEndings(text, i + 1)
    ELSE IF text[i] = "\n" THEN <<"LF">> \o LineEndings(text, i + 1)
    ELSE LineEndings(text, i + 1)

\* C20: a step that writes a file leaves every line terminator of the file as it
\* was: a file with CRLF (or CR) line ends is written back with CRLF (or CR)
C20_WriteKeepsLineEndings ==
    [][\A f \in DOMAIN disk :
          disk'[f] # disk[f] => LineEndings(disk'[f], 1) = LineEndings(disk[f], 1)]_vars

----------------------------------------------------------------------------
(* C21: parse_file *)

\* the file object after f.read() and the end of the with block
closed_at_end(data) == <<[pos |-> Len(data), closed |-> TRUE]>>

\* parse_file after self._parse_maya_imports(f.read(), file_name): the exception
\* leaves the with block, or [] is returned, or the Lexer is made on f.readline
\* without a token being pulled; in each case the with block closes the file
FileImportsParsed(imports) ==
    IF imports.exc # ""
    THEN /\ pc' = "raised"
         /\ result' = [type |-> imports.exc]
         /\ UNCHANGED found_maya_modules
    ELSE /\ found_maya_modules' = imports.value
         /\ result' = result
         /\ pc' = IF imports.value = <<>> THEN "parsed" ELSE "file_stream"

\* parse_file up to the end of its with block
ParseFile ==
    /\ pc = "file_start"
    /\ source_code' = read_file(disk[file_name[1]])
    /\ FileImportsParsed(parse_maya_imports(read_file(disk[file_name[1]]), config))
    /\ handle' = closed_at_end(read_file(disk[file_name[1]]))
    /\ UNCHANGED <<config, lexer, stack, command_flags, lines, pending, probes, calls,
                   inputs, runs, entered, attached, args, main_pc, disk, file_name,
                   futures, completed, reformatted_files, failed_files, status>>

\* what f.readline can still read: nothing of a closed file (a ValueError), else
\* the text after the position of the file object
readable(h, text) ==
    IF h.closed THEN [exc |-> "ValueError", text |-> <<>>]
    ELSE [exc |-> "", text |-> SubSeq(text, h.pos + 1, Len(text))]

\* the first self._lexer.advance() of _parse_stream in parse_file: the token
\* generator calls f.readline for the first time
FirstReadline(r) ==
    IF r.exc # ""
    THEN /\ pc' = "raised"
         /\ result' = [type |-> r.exc]
         /\ lexer' = lexer
    ELSE /\ pc' = "stream"
         /\ result' = result
         /\ lexer' = Lexer(r.text)

\* parse_file after its with block: _parse_stream starts to pull tokens
ParseFileStream ==
    /\ pc = "file_stream"
    /\ FirstReadline(readable(handle[1], source_code))
    /\ UNCHANGED <<source_code, config, found_maya_modules, stack, command_flags,
                   lines, pending, probes, calls, inputs, runs, entered, attached,
                   main_vars>>

\* parse_string has ended on the text of the file; the caller makes a new parser
\* and calls parse_file on the file
ParseFileCalled ==
    /\ pc \in {"parsed", "raised"}
    /\ file_name = <<>>
    /\ runs' = Append(runs, [pc |-> pc, command_flags |-> command_flags,
                             result |-> result])
    /\ file_name' = <<1>>
    /\ pc' = "file_start"
    /\ found_maya_modules' = <<>>
    /\ lexer' = None
    /\ stack' = <<>>
    /\ command_flags' = <<>>
    /\ result' = None
    /\ probes' = {}
    /\ calls' = {}
    /\ entered' = <<>>
    /\ attached' = {}
    /\ UNCHANGED <<source_code, config, lines, pending, inputs, args, main_pc, disk,
                   futures, completed, reformatted_files, failed_files, status,
                   handle>>

\* parse_string is called on the text of the one file of the disk
FileCalled(text, cfg) ==
    /\ source_code = text
    /\ config = cfg
    /\ pc = "start"
    /\ found_maya_modules = <<>>
    /\ lexer = None
    /\ stack = <<>>
    /\ command_flags = <<>>
    /\ lines = <<>>
    /\ pending = <<>>
    /\ result = None
    /\ probes = {}
    /\ calls = {}
    /\ inputs = <<>>
    /\ runs = <<>>
    /\ entered = <<>>
    /\ attached = {}
    /\ args = None
    /\ main_pc = "api"
    /\ disk = <<text>>
    /\ file_name = <<>>
    /\ futures = <<>>
    /\ completed = {}
    /\ reformatted_files = 0
    /\ failed_files = 0
    /\ status = <<>>
    /\ handle = <<>>

\* the files import the namespace or a namesake of it, or are no valid syntax
InitParseFile ==
    \E header \in {T_import, H_other} :
        \E body \in CallBodies(MaxCallStatements) \cup {Y_print} :
            FileCalled(header \o body, MayaArgsConfig)

NextParseFile ==
    \/ ParseString
    \/ ParseStreamStep
    \/ ParseCommandFlagsStep
    \/ ParseFileCalled
    \/ ParseFile
    \/ ParseFileStream

SpecParseFile == InitParseFile /\ [][NextParseFile]_vars

\* C21: when parse_file pulls its first token, the file is open and nothing of it
\* has been read past; and parse_file ends as parse_string ended on the text of
\* the file, with the same records
C21_ParseFileEqualsParseString ==
    /\ pc = "file_stream" => (~handle[1].closed /\ handle[1].pos = 0)
    /\ (file_name # <<>> /\ pc \in {"parsed", "raised"}) =>
          /\ pc = runs[1].pc
          /\ command_flags = runs[1].command_flags
          /\ result = runs[1].result

----------------------------------------------------------------------------
(* C22: --check and --diff *)

\* the call of format_file that ends in this step, if one does
Ended == IF Len(runs') > Len(runs) THEN {runs'[Len(runs')]} ELSE {}

\* C22: with check_only or print_diff no step writes a file; a call of format_file
\* that returns returns True exactly if the scan found an edit; and a file is
\* written exactly by a returning call with both options False and an edit found
C22_CheckAndDiffNeverWrite ==
    [][/\ (args.check \/ args.diff) => disk' = disk
       /\ \A r \in Ended :
             /\ ~r.raised => (r.returned <=> Edits # {})
             /\ disk' # disk <=> (~r.raised /\ ~args.check /\ ~args.diff /\ Edits # {})
       /\ Ended = {} => disk' = disk]_vars

\* a run with --check has returned, a file with a short flag was found changed and
\* holds the text that was read from it
C22_CheckedFileIsLeft ==
    /\ main_pc = "returned"
    /\ args.check
    /\ ~args.diff
    /\ \E k \in TrueRuns : disk[runs[k].file_name] = runs[k].source_code

----------------------------------------------------------------------------
(* C23: the scan of a nested call *)

\* C23: no depth counter of an open scan is below 0, and the counter of the
\* innermost open scan (the enclosing one again, after a nested scan returned) is
\* the number of parentheses opened and not yet closed among the tokens read since
\* its call's opening parenthesis: a nested scan has read none of its caller's
\* closing parentheses
C23_NestedScanKeepsToItsParentheses ==
    pc = "stream" =>
        /\ \A k \in 1..Len(stack) : stack[k].scope >= 0
        /\ stack # <<>> => top.scope = Level(entered[Len(entered)] + 1, consumed(lexer) + 1)

----------------------------------------------------------------------------
(* C24: reformatter.reformat, called with the records in any order *)

\* the sequences that hold the elements of seq in some order
Orders(seq) ==
    {[k \in 1..Len(seq) |-> seq[p[k]]] :
        p \in {p \in [1..Len(seq) -> 1..Len(seq)] : \A i, j \in 1..Len(seq) : p[i] = p[j] => i = j}}

\* for the k-th token of T_two_calls as a flag of command_name: no node, or the
\* node with the long name of the flag table
TableFlagArgs(k, command_name) == {a \in FlagArgs(k, command_name) : a = <<>> \/ a[1].long_name # <<>>}

\* the trees of Trees whose nodes have their long names, with the top-level list
\* and the flag_tokens of every record in every order
PermutedTrees ==
    UNION {(UNION {Orders(Record(S_delete, x) \o Record(S_trim, c)) :
                      x \in Orders(a \o b)})
           \cup {Record(S_delete, x) : x \in Orders(a \o Record(S_trim, c) \o b)} :
           a \in TableFlagArgs(5, S_delete), b \in TableFlagArgs(9, S_delete),
           c \in TableFlagArgs(18, S_trim)}

InitPermuted == \E flags \in PermutedTrees : ReformatCalled(T_two_calls, flags)

SpecPermuted == InitPermuted /\ [][NextReformat]_vars

\* C24: whatever the order of the top-level list and of the flag_tokens of each
\* record, reformat returns the text with the span of every node replaced by its
\* long name, the spans taken in the columns of the text it was given
C24_OrderOfRecordsIsImmaterial ==
    pc = "done" => result = Replaced(source_code, 1, 0, 0, {e.node : e \in Edits})

----------------------------------------------------------------------------
(* C25: the order in which reformat applies the edits of the scanner *)

\* node a starts before node b in the text
StartsBefore(a, b) == a.lineno < b.lineno \/ (a.lineno = b.lineno /\ a.start < b.start)

\* every node of the sequence starts before the nodes that precede it
StrictlyDecreasing(nodes) ==
    \A i, j \in 1..Len(nodes) : i < j => StartsBefore(nodes[j], nodes[i])

\* C25: the order in which reformat applies the edits of a tree the scanner
\* returned is strictly decreasing in (line, start column): when an edit is
\* applied, every edit applied before it starts after it
C25_EditsAreAppliedRightToLeft ==
    /\ Parsed => StrictlyDecreasing(format_order(command_flags))
    /\ pc = "reformat" => StrictlyDecreasing(pending)

\* reformat has applied two edits of one line and the edit of a nested record
C25_NestedAndTwoOnOneLine ==
    /\ pc = "done"
    /\ \E k \in 1..Len(command_flags) : \E i \in 1..Len(command_flags[k].flag_tokens) :
          command_flags[k].flag_tokens[i].kind = "FlagKwargs"
    /\ \E e1 \in Edits : \E e2 \in Edits :
          e1.node.lineno = e2.node.lineno /\ e1.node.start < e2.node.start

----------------------------------------------------------------------------
(* C26: the FlagArg nodes of the scanner *)

\* the FlagArg nodes the scanner has created and holds: those of the list of the
\* parser and those of the scans that are open
Created ==
    Edits \cup UNION {EditsOf(<<FlagKwargs(stack[k].command_name, stack[k].flag_tokens)>>) :
                         k \in 1..Len(stack)}

\* the number of FlagArg nodes the scanner holds
CreatedCount ==
    Len(format_order(command_flags))
    + Len(format_order([k \in 1..Len(stack) |->
                           FlagKwargs(stack[k].command_name, stack[k].flag_tokens)]))

\* the spans of two nodes have no character in common
Disjoint(a, b) == a.lineno # b.lineno \/ a.end <= b.start \/ b.end <= a.start

\* C26: every FlagArg the scanner created has the 0-based number of a line of the
\* text, 0 <= start < end <= the length of that line, the text of the line at
\* [start, end) as its short_name, and as its long_name the non-empty entry of
\* short_name in the flag table of its record's command; the spans of two FlagArgs
\* of one parse are disjoint
C26_FlagArgIsTheSpanOfItsToken ==
    pc \in {"stream", "parsed"} =>
        /\ \A e \in Created :
              /\ e.node.lineno \in 0..(Len(split(source_code)) - 1)
              /\ 0 <= e.node.start
              /\ e.node.start < e.node.end
              /\ e.node.end <= Len(split(source_code)[e.node.lineno + 1])
              /\ SubSeq(split(source_code)[e.node.lineno + 1], e.node.start + 1, e.node.end)
                    = e.node.short_name
              /\ e.node.long_name # <<>>
              /\ has_flag(get_flags(config, e.command_name), e.node.short_name)
              /\ e.node.long_name = get_flags(config, e.command_name)[e.node.short_name]
        /\ \A e1, e2 \in Created : e1 # e2 => Disjoint(e1.node, e2.node)
        /\ Cardinality(Created) = CreatedCount

\* two scans are open, a nested one and its caller, and each holds a FlagArg
C26_NodesOfTwoOpenScans ==
    /\ pc = "stream"
    /\ Len(stack) = 2
    /\ \A k \in 1..2 : \E i \in 1..Len(stack[k].flag_tokens) :
          stack[k].flag_tokens[i].kind = "FlagArg"

----------------------------------------------------------------------------
(* C27: the records of the scanner *)

\* the records the scanner holds: those under the list of the parser and those
\* under the lists of the open scans
Records ==
    RecordsOf(command_flags) \cup UNION {RecordsOf(stack[k].flag_tokens) : k \in 1..Len(stack)}

\* the list the innermost scan hands its record to when it returns, before and
\* after the step: the list of its caller, or the list of the parser for a scan
\* that _parse_stream opened
ListOfCaller == IF Len(stack) = 1 THEN command_flags ELSE stack[Len(stack) - 1].flag_tokens
ListOfCallerAfter == IF Len(stack) = 1 THEN command_flags' ELSE stack'[Len(stack) - 1].flag_tokens

\* C27: every record the scanner holds, at every level, has a non-empty
\* flag_tokens list of FlagArg and FlagKwargs nodes; and a scan that returns adds
\* its record to the list of its caller exactly if it collected an edit (a flag of
\* its own or a non-empty nested record, which holds one), and adds nothing otherwise
C27_RecordsAreNeverEmpty ==
    [][/\ \A r \in Records' :
             /\ r.flag_tokens # <<>>
             /\ \A i \in 1..Len(r.flag_tokens) : r.flag_tokens[i].kind \in {"FlagArg", "FlagKwargs"}
       /\ (pc = "stream" /\ Len(stack') < Len(stack)) =>
             IF EditsOf(<<FlagKwargs(top.command_name, top.flag_tokens)>>) # {}
             THEN ListOfCallerAfter = Append(ListOfCaller, FlagKwargs(top.command_name, top.flag_tokens))
             ELSE top.flag_tokens = <<>> /\ ListOfCallerAfter = ListOfCaller]_vars

\* the scanner returned a record that holds nothing but a nested record, and a
\* target call of the text has no record
C27_RecordOfNestedRecordOnly ==
    /\ pc = "parsed"
    /\ \E r \in RecordsOf(command_flags) :
          \A i \in 1..Len(r.flag_tokens) : r.flag_tokens[i].kind = "FlagKwargs"
    /\ Cardinality(calls) > Cardinality(RecordsOf(command_flags))

----------------------------------------------------------------------------
(* C28: the end of the token stream *)

\* the namespace as the last token of the text, which does not end in a newline
E_name ==
    <<"x", " ", "=", " ", "c", "m", "d", "s">>

\* the namespace as the only token of the last line
E_reference ==
    <<"c", "m", "d", "s">>

\* a command as the last token of the text
E_command ==
    <<"x", " ", "=", " ", "c", "m", "d", "s", ".", "d", "e", "l", "e", "t",
      "e">>

\* a call as the last statement, without a newline
E_call ==
    <<"c", "m", "d", "s", ".", "d", "e", "l", "e", "t", "e", "(", "n", "=",
      "1", ")">>

\* how a text ends: in the newline of its last statement, or in a last line
\* without a newline
Endings == {<<>>, E_name, E_reference, E_command, E_call}

\* the import alone without its newline, and the import, no or one statement and
\* an ending
SourcesEnds ==
    {SubSeq(T_import, 1, Len(T_import) - 1)}
    \cup {T_import \o b \o e : b \in CallStatements \cup {<<>>}, e \in Endings}

InitEnds == \E text \in SourcesEnds : Called(text, MayaArgsConfig, <<>>)

SpecEnds == InitEnds /\ [][Next]_vars

\* the scan ended with an exception that is not the SyntaxError of ast.parse
ScanRaised == pc = "raised" /\ result.type \notin {"SyntaxError", "ValueError"}

\* C28: every iteration of _parse_stream and of _parse_command_flags reads at
\* least one token; the scan never raises, wherever the token stream ends; and
\* when the scan ends, the edits that the open scans had collected are in the
\* tree that is returned
C28_EndOfStreamEndsTheScan ==
    [][/\ (pc = "stream" /\ lexer # None /\ lexer' # None /\ lexer' # lexer)
             => consumed(lexer') > consumed(lexer)
       /\ ~ScanRaised'
       /\ (pc = "stream" /\ pc' = "parsed") => Created \subseteq Edits']_vars

----------------------------------------------------------------------------
(* C29: parse_string called again on the same MayaFlagsParser *)

\* parse_string has returned or raised, and the caller calls it again on the same
\* object with the next text: the attributes of the object are as the call before
\* left them
ParseStringAgain ==
    /\ pc \in {"parsed", "raised"}
    /\ inputs # <<>>
    /\ runs' = Append(runs, [source_code |-> source_code,
                             command_flags |-> command_flags,
                             result |-> result])
    /\ source_code' = inputs[1].text
    /\ inputs' = Tail(inputs)
    /\ pc' = "start"
    /\ stack' = <<>>
    /\ result' = None
    /\ probes' = {}
    /\ calls' = {}
    /\ entered' = <<>>
    /\ attached' = {}
    /\ UNCHANGED <<config, found_maya_modules, lexer, command_flags, lines, pending,
                   main_vars>>

\* what parse_string returns: `return []` without a bound name, else
\* `return self._command_flags`
parse_string_returns(found, flags) == IF found = <<>> THEN <<>> ELSE flags

\* the texts of the calls: calls with and without flags after the import, a call
\* after the import of a namesake, a text that is no valid syntax
SourcesInstance ==
    {T_import \o P_delete_at, T_import \o P_nested, T_import \o P_no_flags,
     H_other \o P_delete_at, T_import \o Y_print}

InitInstance ==
    \E first \in SourcesInstance : \E second \in SourcesInstance :
        Called(first, MayaArgsConfig, <<Text(second)>>)

NextInstance ==
    \/ ParseString
    \/ ParseStreamStep
    \/ ParseCommandFlagsStep
    \/ ParseStringAgain

SpecInstance == InitInstance /\ [][NextInstance]_vars

\* C29: the list a call of parse_string returns holds the records that were found
\* in that call (as many top-level records as scans of that call handed one to
\* _parse_stream, every edit the span of a token of that call's text with the
\* short name as its string), whatever was parsed on the object before; and the
\* bound names a scan works with are those of the imports of its own text
C29_ParseIsSelfContained ==
    /\ pc \in {"stream", "parsed"} =>
          found_maya_modules = parse_maya_imports(source_code, config).value
    /\ pc = "parsed" =>
          /\ Len(parse_string_returns(found_maya_modules, command_flags))
                = Cardinality({a \in attached : a.parent = 0})
          /\ \A e \in EditsOf(parse_string_returns(found_maya_modules, command_flags)) :
                \E t \in 1..Len(Tokens) :
                    Spans(e.node, t) /\ Tokens[t].string = e.node.short_name

----------------------------------------------------------------------------
(* C30: class Lexer, called in any order *)

\* a line of one token
L_name ==
    <<"x", "\n">>

\* a line of three tokens
L_assign ==
    <<"x", "=", "1", "\n">>

\* the number of calls of advance and peek on one lexer
MaxLexerCalls == 6

\* what a call left: its name, whether it returned (or raised StopIteration), the
\* token it returned (peek) and the current token after it
LexerCall(name, r) == [call |-> name, ok |-> r.ok, tok |-> r.lx.token, token |-> r.lx.token]
LexerPeekCall(r) == [call |-> "peek", ok |-> r.ok, tok |-> r.tok, token |-> r.lx.token]

\* a caller calls advance()
LexerAdvance ==
    /\ pc = "lexer"
    /\ Len(runs) < MaxLexerCalls
    /\ lexer' = advance(lexer).lx
    /\ runs' = Append(runs, LexerCall("advance", advance(lexer)))
    /\ UNCHANGED <<source_code, config, pc, found_maya_modules, stack, command_flags,
                   lines, pending, result, probes, calls, inputs, entered, attached,
                   main_vars>>

\* a caller calls peek()
LexerPeek ==
    /\ pc = "lexer"
    /\ Len(runs) < MaxLexerCalls
    /\ lexer' = peek(lexer).lx
    /\ runs' = Append(runs, LexerPeekCall(peek(lexer)))
    /\ UNCHANGED <<source_code, config, pc, found_maya_modules, stack, command_flags,
                   lines, pending, result, probes, calls, inputs, entered, attached,
                   main_vars>>

\* Lexer(io.StringIO(text).readline) is constructed
LexerCalled(text) ==
    /\ source_code = text
    /\ config = MayaArgsConfig
    /\ pc = "lexer"
    /\ found_maya_modules = <<>>
    /\ lexer = Lexer(text)
    /\ stack = <<>>
    /\ command_flags = <<>>
    /\ lines = <<>>
    /\ pending = <<>>
    /\ result = None
    /\ probes = {}
    /\ calls = {}
    /\ inputs = <<>>
    /\ runs = <<>>
    /\ entered = <<>>
    /\ attached = {}
    /\ args = None
    /\ main_pc = "api"
    /\ disk = <<>>
    /\ file_name = <<>>
    /\ futures = <<>>
    /\ completed = {}
    /\ reformatted_files = 0
    /\ failed_files = 0
    /\ status = <<>>
    /\ handle = <<>>

InitLexer == \E text \in {L_name, L_assign} : LexerCalled(text)

NextLexer == LexerAdvance \/ LexerPeek

SpecLexer == InitLexer /\ [][NextLexer]_vars

\* the calls of advance that returned, in order
Advanced(r) == r.call = "advance" /\ r.ok
Advances == SelectSeq(runs, Advanced)

\* the first call of advance after call k, if there is one
NextAdvance(k) ==
    {j \in (k + 1)..Len(runs) :
        /\ runs[j].call = "advance"
        /\ \A i \in (k + 1)..(j - 1) : runs[i].call # "advance"}

\* C30: in every order of calls of advance and peek, a peek that returns gives the
\* token that the next advance makes current, and leaves the current token as it
\* was; peeks with no advance between them return the same token; the buffer
\* never holds more than one token; and the tokens that the calls of advance made
\* current are the token stream from its start, in order, none skipped or repeated
C30_PeekIsALookahead ==
    pc = "lexer" =>
        /\ \A k \in 1..Len(runs) : (runs[k].call = "peek" /\ runs[k].ok) =>
              /\ \A j \in NextAdvance(k) : runs[j].ok /\ runs[j].token = runs[k].tok
              /\ runs[k].token = (IF k = 1 THEN None ELSE runs[k - 1].token)
              /\ (k < Len(runs) /\ runs[k + 1].call = "peek") =>
                    (runs[k + 1].ok /\ runs[k + 1].tok = runs[k].tok)
        /\ Len(lexer.tokens_ahead) <= 1
        /\ Len(Advances) <= Len(Tokens)
        /\ \A n \in 1..Len(Advances) : Advances[n].token = Tokens[n]
        /\ lexer.token = (IF Advances = <<>> THEN None ELSE Tokens[Len(Advances)])

\* two peeks and then calls of advance up to the end of the token stream: the
\* next call raises StopIteration
C30_PeeksBeforeAdvances ==
    /\ pc = "lexer"
    /\ Len(runs) = 6
    /\ runs[1].call = "peek" /\ runs[2].call = "peek"
    /\ \A k \in 3..5 : runs[k].call = "advance"
    /\ Len(Advances) = Len(Tokens)
    /\ ~runs[6].ok

====
